---- MODULE Spec2Model ----
(***************************************************************************)
(* A model of bpfman-catalog: the FBC template builder (pkg/bundle), the   *)
(* deployment manifest generator (pkg/manifests), the bundle analyser     *)
(* (pkg/analysis) and the command driver (cmd/bpfman-catalog).            *)
(*                                                                         *)
(* Go strings are TLA+ strings; fmt.Sprintf is concatenation (\o), a      *)
(* slice s[a:b] is SubSeq(s, a+1, b).  An error is its message ("" is a   *)
(* nil error); a pointer result is a sequence of at most one value (<<>>   *)
(* is nil) or, in pkg/bundle, the component's "No..." value.               *)
(***************************************************************************)
EXTENDS Integers, Sequences, FiniteSets, TLC

VARIABLES
    registry,      \* bundle images as the render capability sees them
    fbcIn,         \* arguments of the template-builder call
    fbcOut,        \* what each run of that call returned: <<[err, template]>>
    gen,           \* the manifests.Generator: its config and label context
    catalogChannel, \* the default channel the catalog image declares
    clock,         \* time.Now()
    manifestOut,   \* what each GenerateFromCatalog run returned: <<[err, set]>>
    reachable,     \* which images the registries serve
    analysisIn,    \* the bundle reference given to AnalyzeBundle
    analysisOut,   \* what each AnalyzeBundle run returned: <<[err, analysis, io]>>
    inspectIn,     \* the image references given to InspectImages
    inspectOut,    \* what each InspectImages run returned: <<[err, results, io]>>
    imageOut,      \* what each InspectImage run returned: <<[err, result, io]>>
    cliIn,         \* the flags of prepare-catalog-build-from-bundle
    cliPc,         \* where the command goroutine is: start, extract, render, returned, sent
    mainPc,        \* where main is: select, waitErr, exited
    ctxDone,       \* main's context is cancelled
    sigChan,       \* a signal waits in sigChan
    renderFails,   \* the catalog render is refused (registry or opm)
    bundleGen,     \* the bundle.Generator
    generated,     \* what Generate returned: [err, artefacts]
    pendingTemplate, \* the template the pending catalog render was given
    outDir,        \* the files of the output directory
    calls,         \* the registry and process calls that returned: <<[op, done, err]>>
    cliErr,        \* the error Run returned
    exitCode,      \* the exit status of the process
    errChan,       \* the errors waiting in errChan
    metaIn,        \* the image reference given to the reference functions
    metaOut,       \* what each call on it returned: <<[op, err, meta, suffix]>>
    renderPc,      \* where RenderCatalogWithBinary is: idle, mkdir, write, exec, running
    renderCtxDone, \* the context given to RenderCatalogWithBinary is cancelled
    tempDirs,      \* the temporary directories that exist
    tempDir,       \* the tempDir of the call under way, 0 when it has none
    mkdirCount,    \* how many directories os.MkdirTemp has made
    renderOut      \* what each call returned: <<[err, yaml, dir, outcome]>>

fbcVars == <<registry, fbcIn, fbcOut>>
manifestVars == <<gen, catalogChannel, clock, manifestOut>>
analysisVars == <<reachable, analysisIn, analysisOut, inspectIn, inspectOut, imageOut>>
cliVars == <<cliIn, cliPc, mainPc, ctxDone, sigChan, renderFails, bundleGen, generated,
             pendingTemplate, outDir, calls, cliErr, exitCode, errChan>>
catalogVars == <<metaIn, metaOut>>
renderVars == <<renderPc, renderCtxDone, tempDirs, tempDir, mkdirCount, renderOut>>
vars == <<registry, fbcIn, fbcOut, gen, catalogChannel, clock, manifestOut,
          reachable, analysisIn, analysisOut, inspectIn, inspectOut, imageOut,
          cliIn, cliPc, mainPc, ctxDone, sigChan, renderFails, bundleGen, generated,
          pendingTemplate, outDir, calls, cliErr, exitCode, errChan, metaIn, metaOut,
          renderPc, renderCtxDone, tempDirs, tempDir, mkdirCount, renderOut>>

(***************************************************************************)
(* strings                                                                 *)
(***************************************************************************)

\* strings.HasPrefix
HasPrefix(s, p) == Len(s) >= Len(p) /\ SubSeq(s, 1, Len(p)) = p

\* strings.Contains, for a non-empty sub
Contains(s, sub) ==
    \E i \in 1..(Len(s) - Len(sub) + 1) : SubSeq(s, i, i + Len(sub) - 1) = sub

\* strings.ReplaceAll(s, old, "") for a one-character old
RECURSIVE RemoveAll(_, _)
RemoveAll(s, old) ==
    IF Len(s) = 0 THEN ""
    ELSE (IF SubSeq(s, 1, 1) = old THEN "" ELSE SubSeq(s, 1, 1))
         \o RemoveAll(SubSeq(s, 2, Len(s)), old)

\* A local variable: v is evaluated once and Body reads it.
With(v, Body(_)) == Body(v)

\* strings.TrimPrefix
TrimPrefix(s, p) == IF HasPrefix(s, p) THEN SubSeq(s, Len(p) + 1, Len(s)) ELSE s

\* strings.Index for a one-character sep, counted from 1; 0 when absent
Index(s, sep) ==
    LET at == {i \in 1..Len(s) : SubSeq(s, i, i) = sep}
    IN  IF at = {} THEN 0 ELSE CHOOSE i \in at : \A j \in at : i <= j

\* strings.Split for a one-character sep
RECURSIVE Split(_, _)
Split(s, sep) ==
    LET at == Index(s, sep)
    IN  IF at = 0 THEN <<s>>
        ELSE <<SubSeq(s, 1, at - 1)>> \o Split(SubSeq(s, at + 1, Len(s)), sep)

\* strings.Join
RECURSIVE Join(_, _)
Join(parts, sep) ==
    IF Len(parts) = 0 THEN ""
    ELSE IF Len(parts) = 1 THEN parts[1]
    ELSE parts[1] \o sep \o Join(Tail(parts), sep)

(***************************************************************************)
(* pkg/bundle: bundle metadata and the registry                            *)
(***************************************************************************)

\* Longest bundle list handed to GenerateMultiBundleFBCTemplate.
MaxBundles == 3

BundleA ==
    [Image |-> "quay.io/demo/bundle:v1.0-aaaaaaaa", Tag |-> "v1.0-aaaaaaaa",
     Version |-> "1.0", BuildDate |-> "2025-01-01T00:00:00Z"]
BundleB ==
    [Image |-> "quay.io/demo/bundle:v1.1-bbbbbbbb", Tag |-> "v1.1-bbbbbbbb",
     Version |-> "1.1", BuildDate |-> "2025-02-01T00:00:00Z"]
\* Built in the same minute as BundleA from a commit with the same tag prefix.
BundleA2 ==
    [Image |-> "quay.io/t/bundle:v1.0-aaabbbbb", Tag |-> "v1.0-aaabbbbb",
     Version |-> "1.0", BuildDate |-> "2025-01-01T00:00:30Z"]
\* A short tag and a date-only build date.
BundleS ==
    [Image |-> "quay.io/t/bundle:abc1234", Tag |-> "abc1234",
     Version |-> "0.5.7", BuildDate |-> "2025-03-01"]
\* No build date, no version.
BundleN ==
    [Image |-> "quay.io/t/bundle:latest", Tag |-> "latest",
     Version |-> "", BuildDate |-> ""]
\* Same build date as BundleB.
BundleT ==
    [Image |-> "quay.io/t/bundle:cccccccc9", Tag |-> "cccccccc9",
     Version |-> "1.2", BuildDate |-> "2025-02-01T00:00:00Z"]

\* The BundleMetadata values of the model (fields as fbc.go and main.go read them).
BundleUniverse == {BundleA, BundleB, BundleA2, BundleS, BundleN, BundleT}

BundleImages == {b.Image : b \in BundleUniverse}

\* Lists of distinct bundles, the empty list included.
BundleLists ==
    UNION {{l \in [1..n -> BundleUniverse] :
               \A i, j \in 1..n : i # j => l[i] # l[j]} : n \in 0..MaxBundles}

Channels == {"", "stable"}

\* What the render capability answers for a bundle image: "ok" renders the
\* bundle under the requested image, "mirror" renders it under the image of a
\* mirror, "down" fails.
RegistryStates ==
    {r \in [BundleImages -> {"ok", "mirror", "down"}] :
        Cardinality({i \in BundleImages : r[i] # "ok"}) <= 1}

\* The package and the bundle name recorded inside a bundle image.
PackageOf(image) ==
    IF Contains(image, "quay.io/demo/") THEN "demo-operator" ELSE "bpfman-operator"
BundleNameOf(image) == PackageOf(image) \o ".v" \o
    (CHOOSE b \in BundleUniverse : b.Image = image).Version

MirrorOf(image) == "registry.mirror.example/" \o image

\* action.Render{Refs: {image}, AllowedRefMask: RefBundleImage}.Run
Render(reg, image) ==
    CASE reg[image] = "down" -> [err |-> "render " \o image \o ": unreachable",
                                  Bundles |-> <<>>]
      [] reg[image] = "mirror" ->
            [err |-> "",
             Bundles |-> <<[Image |-> MirrorOf(image), Name |-> BundleNameOf(image),
                            Package |-> PackageOf(image)]>>]
      [] OTHER ->
            [err |-> "",
             Bundles |-> <<[Image |-> image, Name |-> BundleNameOf(image),
                            Package |-> PackageOf(image)]>>]

NoBundleInfo == [Name |-> "", Package |-> ""]

\* extractBundleInfo had it taken the first rendered bundle, whatever its image.
extractBundleInfoTakingFirst(reg, bundleImage) ==
    LET cfg == Render(reg, bundleImage)
    IN  IF cfg.err # ""
        THEN [err |-> "rendering bundle: " \o cfg.err, info |-> NoBundleInfo]
        ELSE IF cfg.Bundles = <<>>
        THEN [err |-> "bundle not found in rendered config", info |-> NoBundleInfo]
        ELSE [err |-> "",
              info |-> [Name |-> cfg.Bundles[1].Name,
                        Package |-> cfg.Bundles[1].Package]]

\* extractBundleInfo: the first rendered bundle whose image is the one asked for.
extractBundleInfo(reg, bundleImage) ==
    LET cfg == Render(reg, bundleImage)
        hits == {i \in DOMAIN cfg.Bundles : cfg.Bundles[i].Image = bundleImage}
    IN  IF cfg.err # ""
        THEN [err |-> "rendering bundle: " \o cfg.err, info |-> NoBundleInfo]
        ELSE IF hits = {}
        THEN [err |-> "bundle not found in rendered config", info |-> NoBundleInfo]
        ELSE LET first == CHOOSE i \in hits : \A j \in hits : i <= j
             IN  [err |-> "",
                  info |-> [Name |-> cfg.Bundles[first].Name,
                            Package |-> cfg.Bundles[first].Package]]

\* generateCatalogEntryName had it left the colon in the time of day.
generateCatalogEntryNameWithColons(meta) ==
    LET shortSHA == IF Len(meta.Tag) > 8 THEN SubSeq(meta.Tag, 1, 8) ELSE meta.Tag
        timestamp ==
            IF meta.BuildDate # "" /\ Len(meta.BuildDate) >= 16
            THEN SubSeq(meta.BuildDate, 1, 10) \o "T" \o SubSeq(meta.BuildDate, 12, 16)
            ELSE ""
    IN  "bpfman-operator.v" \o meta.Version \o "-g" \o shortSHA \o "-" \o timestamp

\* generateCatalogEntryName
generateCatalogEntryName(meta) ==
    LET version == meta.Version
        shortSHA == IF Len(meta.Tag) > 8 THEN SubSeq(meta.Tag, 1, 8) ELSE meta.Tag
        timestamp ==
            IF meta.BuildDate # "" /\ Len(meta.BuildDate) >= 16
            THEN LET datePart == SubSeq(meta.BuildDate, 1, 10)
                     timePart == SubSeq(meta.BuildDate, 12, 16)
                     timeFormatted == RemoveAll(timePart, ":")
                 IN  datePart \o "T" \o timeFormatted
            ELSE ""
    IN  "bpfman-operator.v" \o version \o "-g" \o shortSHA \o "-" \o timestamp

NoTemplate == [Schema |-> "", Entries |-> <<>>]

PackageEntry(name, defaultChannel) ==
    [Schema |-> "olm.package", Name |-> name, DefaultChannel |-> defaultChannel]
ChannelEntry(package, name, entries) ==
    [Schema |-> "olm.channel", Package |-> package, Name |-> name, Entries |-> entries]
ChannelEntryItem(name, replaces) == [Name |-> name, Replaces |-> replaces]
BundleEntry(image, name) == [Schema |-> "olm.bundle", Image |-> image, Name |-> name]

\* GenerateFBCTemplate had it always made "preview" the package's default channel.
GenerateFBCTemplatePreviewDefault(reg, bundleImage, channelArg) ==
    LET channel == IF channelArg = "" THEN "preview" ELSE channelArg
        bundleInfo == extractBundleInfo(reg, bundleImage)
        bundleName == bundleInfo.info.Name
        packageName == bundleInfo.info.Package
    IN  IF bundleImage = ""
        THEN [err |-> "bundle image cannot be empty", template |-> NoTemplate]
        ELSE IF bundleInfo.err # ""
        THEN [err |-> "extracting bundle info: " \o bundleInfo.err,
              template |-> NoTemplate]
        ELSE [err |-> "",
              template |->
                [Schema |-> "olm.template.basic",
                 Entries |-> <<PackageEntry(packageName, "preview"),
                               ChannelEntry(packageName, channel,
                                            <<ChannelEntryItem(bundleName, "")>>),
                               BundleEntry(bundleImage, bundleName)>>]]

\* GenerateFBCTemplate
GenerateFBCTemplate(reg, bundleImage, channelArg) ==
    LET channel == IF channelArg = "" THEN "preview" ELSE channelArg
        bundleInfo == extractBundleInfo(reg, bundleImage)
        bundleName == bundleInfo.info.Name
        packageName == bundleInfo.info.Package
    IN  IF bundleImage = ""
        THEN [err |-> "bundle image cannot be empty", template |-> NoTemplate]
        ELSE IF bundleInfo.err # ""
        THEN [err |-> "extracting bundle info: " \o bundleInfo.err,
              template |-> NoTemplate]
        ELSE [err |-> "",
              template |->
                [Schema |-> "olm.template.basic",
                 Entries |-> <<PackageEntry(packageName, channel),
                               ChannelEntry(packageName, channel,
                                            <<ChannelEntryItem(bundleName, "")>>),
                               BundleEntry(bundleImage, bundleName)>>]]

\* The channel entries loop had it stamped the name of a bundle without a
\* usable build date with the time of the run.
buildChannelEntriesStampingUndated(bundles) ==
    [i \in 1..Len(bundles) |->
        ChannelEntryItem(generateCatalogEntryName(bundles[i])
                         \o (IF Len(bundles[i].BuildDate) < 16 THEN ToString(clock)
                             ELSE ""),
                         IF i > 1 THEN generateCatalogEntryName(bundles[i - 1])
                         ELSE "")]

\* The channel entries loop of GenerateMultiBundleFBCTemplate: entry i is named
\* after bundle i and replaces the name generated for bundle i-1.
buildChannelEntries(bundles) ==
    [i \in 1..Len(bundles) |->
        ChannelEntryItem(generateCatalogEntryName(bundles[i]),
                         IF i > 1 THEN generateCatalogEntryName(bundles[i - 1])
                         ELSE "")]

\* GenerateMultiBundleFBCTemplate had it named the bundle entry of a bundle
\* without a usable build date with a placeholder timestamp.
GenerateMultiBundleFBCTemplatePlaceholderDate(reg, bundles, channelArg) ==
    LET channel == IF channelArg = "" THEN "preview" ELSE channelArg
        bundleInfos == [i \in 1..Len(bundles) |-> extractBundleInfo(reg, bundles[i].Image)]
        failed == {i \in 1..Len(bundles) : bundleInfos[i].err # ""}
        firstFailed == CHOOSE i \in failed : \A j \in failed : i <= j
        packageName == bundleInfos[1].info.Package
        channelEntries == buildChannelEntries(bundles)
    IN  IF Len(bundles) = 0
        THEN [err |-> "no bundles provided", template |-> NoTemplate]
        ELSE IF failed # {}
        THEN [err |-> "extracting bundle info for " \o bundles[firstFailed].Image
                        \o ": " \o bundleInfos[firstFailed].err,
              template |-> NoTemplate]
        ELSE [err |-> "",
              template |->
                [Schema |-> "olm.template.basic",
                 Entries |-> <<PackageEntry(packageName, channel),
                               ChannelEntry(packageName, channel, channelEntries)>>
                             \o [i \in 1..Len(bundles) |->
                                    BundleEntry(bundles[i].Image,
                                                generateCatalogEntryName(bundles[i])
                                                \o (IF Len(bundles[i].BuildDate) < 16
                                                    THEN "0001-01-01T0000" ELSE ""))]]]

\* GenerateMultiBundleFBCTemplate
GenerateMultiBundleFBCTemplate(reg, bundles, channelArg) ==
    LET channel == IF channelArg = "" THEN "preview" ELSE channelArg
        bundleInfos == [i \in 1..Len(bundles) |-> extractBundleInfo(reg, bundles[i].Image)]
        failed == {i \in 1..Len(bundles) : bundleInfos[i].err # ""}
        firstFailed == CHOOSE i \in failed : \A j \in failed : i <= j
        packageName == bundleInfos[1].info.Package
        channelEntries == buildChannelEntries(bundles)
    IN  IF Len(bundles) = 0
        THEN [err |-> "no bundles provided", template |-> NoTemplate]
        ELSE IF failed # {}
        THEN [err |-> "extracting bundle info for " \o bundles[firstFailed].Image
                        \o ": " \o bundleInfos[firstFailed].err,
              template |-> NoTemplate]
        ELSE [err |-> "",
              template |->
                [Schema |-> "olm.template.basic",
                 Entries |-> <<PackageEntry(packageName, channel),
                               ChannelEntry(packageName, channel, channelEntries)>>
                             \o [i \in 1..Len(bundles) |->
                                    BundleEntry(bundles[i].Image,
                                                generateCatalogEntryName(bundles[i]))]]]

(***************************************************************************)
(* pkg/catalog: metadata of a catalog image reference                      *)
(***************************************************************************)

HexChars == "0123456789abcdef"
IsHex(s) == \A i \in 1..Len(s) : Contains(HexChars, SubSeq(s, i, i))

\* digest.Parse: <algorithm>:<hex> with the length the algorithm prescribes.
DigestParseOk(s) ==
    \/ HasPrefix(s, "sha256:") /\ Len(s) = 7 + 64 /\ IsHex(SubSeq(s, 8, Len(s)))
    \/ HasPrefix(s, "sha384:") /\ Len(s) = 7 + 96 /\ IsHex(SubSeq(s, 8, Len(s)))
    \/ HasPrefix(s, "sha512:") /\ Len(s) = 7 + 128 /\ IsHex(SubSeq(s, 8, Len(s)))

NoImageMetadata ==
    [OriginalRef |-> "", Registry |-> "", Namespace |-> "", Repository |-> "",
     Tag |-> "", Digest |-> "", ShortDigest |-> "", CatalogType |-> "",
     Version |-> "", DefaultChannel |-> ""]

parseImageReference(imageRef0, meta) ==
    With(TrimPrefix(imageRef0, "docker://"), LAMBDA imageRef :
    With(Index(imageRef, "@"), LAMBDA idx :
    With(IF idx # 0 THEN SubSeq(imageRef, 1, idx - 1) ELSE imageRef, LAMBDA baseRef0 :
    With(IF idx # 0 /\ DigestParseOk(SubSeq(imageRef, idx + 1, Len(imageRef)))
         THEN SubSeq(imageRef, idx + 1, Len(imageRef)) ELSE meta.Digest, LAMBDA dgst :
    With(Split(baseRef0, ":"), LAMBDA parts :
    With(IF Len(parts) = 2 THEN parts[2] ELSE meta.Tag, LAMBDA tag :
    With(IF Len(parts) = 2 THEN parts[1] ELSE baseRef0, LAMBDA baseRef :
    With(Split(baseRef, "/"), LAMBDA pathParts0 :
    With(Contains(pathParts0[1], ".") \/ Contains(pathParts0[1], ":"), LAMBDA hasRegistry :
    With(IF hasRegistry THEN Tail(pathParts0) ELSE pathParts0, LAMBDA pathParts :
        IF Len(pathParts0) < 2
        THEN [err |-> "invalid image reference format: " \o imageRef,
              meta |-> [meta EXCEPT !.Digest = dgst, !.Tag = tag]]
        ELSE [err |-> "",
              meta |-> [meta EXCEPT
                  !.Digest = dgst,
                  !.Tag = tag,
                  !.Registry = IF hasRegistry THEN pathParts0[1] ELSE "docker.io",
                  !.Repository = IF Len(pathParts) > 0 THEN pathParts[Len(pathParts)]
                                 ELSE meta.Repository,
                  !.Namespace = IF Len(pathParts) > 1
                                THEN Join(SubSeq(pathParts, 1, Len(pathParts) - 1), "/")
                                ELSE meta.Namespace]]))))))))))

fetchDigest(imageRef, meta) ==
    [err |-> "digest fetching temporarily disabled - please use image references with explicit digests (@sha256:...)",
     meta |-> meta]

\* The first i with parts[i] starting "ocp4" and a part after it, 0 if none.
FirstOcp4(parts) ==
    LET at == {i \in 1..Len(parts) : HasPrefix(parts[i], "ocp4") /\ i + 1 <= Len(parts)}
    IN  IF at = {} THEN 0 ELSE CHOOSE i \in at : \A j \in at : i <= j

extractVersion(repository, tag) ==
    IF tag # "" /\ HasPrefix(tag, "v") THEN TrimPrefix(tag, "v")
    ELSE IF tag # "" /\ Len(Split(tag, ".")) >= 2 THEN tag
    ELSE IF Contains(repository, "ocp4-")
    THEN With(Split(repository, "-"), LAMBDA parts :
         With(FirstOcp4(parts), LAMBDA i :
             IF i # 0 THEN TrimPrefix(parts[i], "ocp") \o "." \o parts[i + 1] ELSE ""))
    ELSE ""

\* ExtractMetadata had it resolved the digest whether or not the reference has one.
ExtractMetadataAlwaysFetching(imageRef, channelInCatalog) ==
    With(parseImageReference(imageRef, [NoImageMetadata EXCEPT !.OriginalRef = imageRef]),
         LAMBDA parsed :
    With(fetchDigest(imageRef, parsed.meta), LAMBDA fetched :
    With(fetched.meta, LAMBDA m :
    With(IF m.Digest # "" /\ HasPrefix(m.Digest, "sha256:") /\ Len(m.Digest) >= 15
         THEN SubSeq(m.Digest, 8, 15) ELSE m.ShortDigest, LAMBDA shortDigest :
    With(Split(m.Repository, "-"), LAMBDA typeParts :
    With(IF Contains(m.Repository, "catalog") /\ Len(typeParts) >= 2
         THEN Join(SubSeq(typeParts, 1, 2), "-") ELSE m.CatalogType, LAMBDA catalogType :
        IF parsed.err # ""
        THEN [err |-> "parsing image reference: " \o parsed.err, meta |-> <<>>]
        ELSE IF fetched.err # ""
        THEN [err |-> "fetching digest: " \o fetched.err, meta |-> <<>>]
        ELSE [err |-> "",
              meta |-> <<[m EXCEPT !.ShortDigest = shortDigest,
                                   !.CatalogType = catalogType,
                                   !.Version = extractVersion(m.Repository, m.Tag),
                                   !.DefaultChannel = channelInCatalog]>>]))))))

\* channelInCatalog is the default channel the image's catalog declares.
ExtractMetadata(imageRef, channelInCatalog) ==
    With(parseImageReference(imageRef, [NoImageMetadata EXCEPT !.OriginalRef = imageRef]),
         LAMBDA parsed :
    With(IF parsed.meta.Digest = "" THEN fetchDigest(imageRef, parsed.meta)
         ELSE [err |-> "", meta |-> parsed.meta], LAMBDA fetched :
    With(fetched.meta, LAMBDA m :
    With(IF m.Digest # "" /\ HasPrefix(m.Digest, "sha256:") /\ Len(m.Digest) >= 15
         THEN SubSeq(m.Digest, 8, 15) ELSE m.ShortDigest, LAMBDA shortDigest :
    With(Split(m.Repository, "-"), LAMBDA typeParts :
    With(IF Contains(m.Repository, "catalog") /\ Len(typeParts) >= 2
         THEN Join(SubSeq(typeParts, 1, 2), "-") ELSE m.CatalogType, LAMBDA catalogType :
        IF parsed.err # ""
        THEN [err |-> "parsing image reference: " \o parsed.err, meta |-> <<>>]
        ELSE IF fetched.err # ""
        THEN [err |-> "fetching digest: " \o fetched.err, meta |-> <<>>]
        ELSE [err |-> "",
              meta |-> <<[m EXCEPT !.ShortDigest = shortDigest,
                                   !.CatalogType = catalogType,
                                   !.Version = extractVersion(m.Repository, m.Tag),
                                   !.DefaultChannel = channelInCatalog]>>]))))))

\* The reference of the image by digest.
GetDigestRef(meta) ==
    meta.Registry \o "/"
    \o (IF meta.Namespace # "" THEN meta.Namespace \o "/" ELSE "")
    \o meta.Repository \o "@" \o meta.Digest

CatalogRefs ==
    {"quay.io/redhat-user-workloads/ocp-bpfman-tenant/catalog-ystream@sha256:abc123450123456789abcdef0123456789abcdef0123456789abcdef01234567",
     "docker://quay.io/ns/catalog-ocp4-19@sha256:12345678fedcba9876543210fedcba9876543210fedcba987654321076543210",
     "registry.example.com/ns/catalog-zstream:v4.19@sha512:0123456789abcdef0123456789abcdef0123456789abcdef0123456789abcdef0123456789abcdef0123456789abcdef0123456789abcdef0123456789abcdef",
     "quay.io/redhat-user-workloads/ocp-bpfman-tenant/catalog-ystream:latest",
     "quay.io/ns/catalog@sha256:abc12345",
     "catalog"}

CatalogChannels == {"", "preview", "stable"}

(***************************************************************************)
(* pkg/manifests: the deployment manifest generator                        *)
(***************************************************************************)

NoLabels == [k \in {} |-> ""]

GeneratorConfigs ==
    {[ImageRef |-> ref, Namespace |-> ns, UseDigestName |-> use] :
        ref \in CatalogRefs, ns \in {"", "bpfman", "test-ns"}, use \in BOOLEAN}

\* No generator constructed yet.
NoGenerator ==
    [made |-> FALSE,
     config |-> [ImageRef |-> "", Namespace |-> "", UseDigestName |-> FALSE],
     labelContext |-> <<>>]

NewGenerator(config) ==
    [made |-> TRUE,
     config |-> [config EXCEPT
                    !.Namespace = IF config.Namespace = "" THEN "bpfman" ELSE @,
                    !.UseDigestName = TRUE],
     labelContext |-> <<>>]

setupLabelContext(g, shortDigest) ==
    LET base == [k \in {"app.kubernetes.io/name", "app.kubernetes.io/created-by",
                        "app.kubernetes.io/version"} |->
                    CASE k = "app.kubernetes.io/name" -> "bpfman-operator"
                      [] k = "app.kubernetes.io/created-by" -> "bpfman-catalog-cli"
                      [] OTHER -> "latest"]
        digestLabels == IF shortDigest # ""
                        THEN [k \in {"bpfman-catalog-cli", "bpfman-catalog-cli/digest"} |->
                                 shortDigest]
                        ELSE NoLabels
    IN  [g EXCEPT !.labelContext =
            <<[ShortDigest |-> shortDigest,
               StandardLabels |-> digestLabels @@ base,
               CustomLabels |-> NoLabels]>>]

generateResourceNameAlwaysSuffixed(g, baseName) ==
    baseName \o "-sha-" \o g.labelContext[1].ShortDigest

generateResourceName(g, baseName) ==
    IF g.labelContext[1].ShortDigest # ""
    THEN baseName \o "-sha-" \o g.labelContext[1].ShortDigest
    ELSE baseName

\* Later writes win: additional over custom over standard.
getMergedLabels(g, additionalLabels) ==
    additionalLabels @@ g.labelContext[1].CustomLabels @@ g.labelContext[1].StandardLabels

NoSpec == [Kind |-> ""]
NoObject == [APIVersion |-> "", Kind |-> "", Name |-> "", Namespace |-> "",
             Labels |-> NoLabels, Spec |-> NoSpec]

NewNamespaceOwnLabelsOnly(g, baseName) ==
    [APIVersion |-> "v1", Kind |-> "Namespace", Name |-> baseName, Namespace |-> "",
     Labels |-> [k \in {"openshift.io/cluster-monitoring"} |-> "true"],
     Spec |-> NoSpec]

NewNamespace(g, baseName) ==
    LET additionalLabels == [k \in {"openshift.io/cluster-monitoring"} |-> "true"]
    IN  [APIVersion |-> "v1", Kind |-> "Namespace", Name |-> baseName, Namespace |-> "",
         Labels |-> getMergedLabels(g, additionalLabels),
         Spec |-> NoSpec]

\* time.Now().Format("2006-01-02 15:04:05") of the second now
FormatTime(now) == "2025-01-01 00:00:0" \o ToString(now)

NewCatalogSource(g, meta, now) ==
    LET timestamp == FormatTime(now)
        display == "bpfman-catalog CLI (ephemeral-" \o meta.ShortDigest \o " - "
                   \o timestamp \o ")"
    IN  [APIVersion |-> "operators.coreos.com/v1alpha1", Kind |-> "CatalogSource",
         Name |-> generateResourceName(g, "bpfman-catalogsource"),
         Namespace |-> "openshift-marketplace",
         Labels |-> getMergedLabels(g, NoLabels),
         Spec |-> [Kind |-> "CatalogSourceSpec", SourceType |-> "grpc",
                   Image |-> meta.Image, DisplayName |-> display, Publisher |-> display]]

NewOperatorGroupInSuffixedNamespace(g, namespace) ==
    [APIVersion |-> "operators.coreos.com/v1", Kind |-> "OperatorGroup",
     Name |-> generateResourceName(g, "bpfman-operatorgroup"),
     Namespace |-> generateResourceName(g, namespace),
     Labels |-> getMergedLabels(g, NoLabels),
     Spec |-> [Kind |-> "OperatorGroupSpec"]]

NewOperatorGroup(g, namespace) ==
    [APIVersion |-> "operators.coreos.com/v1", Kind |-> "OperatorGroup",
     Name |-> generateResourceName(g, "bpfman-operatorgroup"),
     Namespace |-> namespace,
     Labels |-> getMergedLabels(g, NoLabels),
     Spec |-> [Kind |-> "OperatorGroupSpec"]]

NewSubscription(g, namespace, catalogSourceName, channel) ==
    [APIVersion |-> "operators.coreos.com/v1alpha1", Kind |-> "Subscription",
     Name |-> generateResourceName(g, "bpfman-subscription"),
     Namespace |-> namespace,
     Labels |-> getMergedLabels(g, NoLabels),
     Spec |-> [Kind |-> "SubscriptionSpec", Channel |-> channel,
               Name |-> "bpfman-operator", Source |-> catalogSourceName,
               SourceNamespace |-> "openshift-marketplace",
               InstallPlanApproval |-> "Automatic"]]

NewImageDigestMirrorSet(g) ==
    [APIVersion |-> "config.openshift.io/v1", Kind |-> "ImageDigestMirrorSet",
     Name |-> generateResourceName(g, "bpfman-idms"),
     Namespace |-> "",
     Labels |-> getMergedLabels(g, NoLabels),
     Spec |-> [Kind |-> "ImageDigestMirrorSetSpec",
               ImageDigestMirrors |->
                   <<[Source |-> "registry.redhat.io/openshift4",
                      Mirrors |-> <<"registry.stage.redhat.io/openshift4",
                                    "registry-proxy.engineering.redhat.com/rh-osbs/openshift4">>]>>]]

\* What the call hands back: err, the *ManifestSet (<<>> is nil) and the
\* generator as the call left it.
GenerateFromCatalogGuessingChannel(g, channelInCatalog, now) ==
    With(ExtractMetadata(g.config.ImageRef, channelInCatalog), LAMBDA extracted :
        IF extracted.err # ""
        THEN [err |-> "extracting catalog metadata: " \o extracted.err,
              set |-> <<>>, gen |-> g]
        ELSE
    With(extracted.meta[1], LAMBDA meta :
    With(setupLabelContext(g, IF g.config.UseDigestName /\ meta.ShortDigest # ""
                              THEN meta.ShortDigest ELSE ""), LAMBDA g1 :
    With([Image |-> GetDigestRef(meta), Digest |-> meta.Digest,
          ShortDigest |-> meta.ShortDigest, CatalogType |-> meta.CatalogType],
         LAMBDA catalogMeta :
    With(NewNamespace(g1, g1.config.Namespace), LAMBDA namespace :
    With(NewCatalogSource(g1, catalogMeta, now), LAMBDA catalogSource :
    With(IF meta.DefaultChannel = "" THEN "preview" ELSE meta.DefaultChannel,
         LAMBDA channel :
        [err |-> "",
         set |-> <<[Namespace |-> namespace,
                    IDMS |-> NewImageDigestMirrorSet(g1),
                    CatalogSource |-> catalogSource,
                    OperatorGroup |-> NewOperatorGroup(g1, namespace.Name),
                    Subscription |-> NewSubscription(g1, namespace.Name,
                                         catalogSource.Name, channel)]>>,
         gen |-> g1])))))))

GenerateFromCatalog(g, channelInCatalog, now) ==
    With(ExtractMetadata(g.config.ImageRef, channelInCatalog), LAMBDA extracted :
        IF extracted.err # ""
        THEN [err |-> "extracting catalog metadata: " \o extracted.err,
              set |-> <<>>, gen |-> g]
        ELSE
    With(extracted.meta[1], LAMBDA meta :
    With(setupLabelContext(g, IF g.config.UseDigestName /\ meta.ShortDigest # ""
                              THEN meta.ShortDigest ELSE ""), LAMBDA g1 :
    With([Image |-> GetDigestRef(meta), Digest |-> meta.Digest,
          ShortDigest |-> meta.ShortDigest, CatalogType |-> meta.CatalogType],
         LAMBDA catalogMeta :
    With(NewNamespace(g1, g1.config.Namespace), LAMBDA namespace :
    With(NewCatalogSource(g1, catalogMeta, now), LAMBDA catalogSource :
    With(meta.DefaultChannel, LAMBDA channel :
        IF channel = ""
        THEN [err |-> "no default channel found in catalog metadata",
              set |-> <<>>, gen |-> g1]
        ELSE [err |-> "",
              set |-> <<[Namespace |-> namespace,
                         IDMS |-> NewImageDigestMirrorSet(g1),
                         CatalogSource |-> catalogSource,
                         OperatorGroup |-> NewOperatorGroup(g1, namespace.Name),
                         Subscription |-> NewSubscription(g1, namespace.Name,
                                              catalogSource.Name, channel)]>>,
              gen |-> g1])))))))

ManifestsIdle ==
    /\ gen = NoGenerator
    /\ catalogChannel = ""
    /\ clock = 0
    /\ manifestOut = <<>>

(***************************************************************************)
(* pkg/analysis: bundle analysis                                           *)
(***************************************************************************)

NoImageRef == [Registry |-> "", Repo |-> "", Tag |-> "", Digest |-> ""]

\* registry/repo[:tag][@digest]
ParseImageRef(refStr) ==
    With(Split(refStr, "/"), LAMBDA segs :
    With(Join(Tail(segs), "/"), LAMBDA path :
    With(Index(path, "@"), LAMBDA at :
    With(Split(IF at # 0 THEN SubSeq(path, 1, at - 1) ELSE path, ":"), LAMBDA named :
        IF Len(segs) < 2 \/ segs[1] = "" \/ Contains(refStr, " ") \/ Len(named) > 2
           \/ named[1] = ""
        THEN [err |-> "invalid image reference format: " \o refStr, ref |-> NoImageRef]
        ELSE [err |-> "",
              ref |-> [Registry |-> segs[1],
                       Repo |-> named[1],
                       Tag |-> IF Len(named) = 2 THEN named[2] ELSE "",
                       Digest |-> IF at # 0 THEN SubSeq(path, at + 1, Len(path))
                                  ELSE ""]]))))

ImageRefString(ref) ==
    ref.Registry \o "/" \o ref.Repo
    \o (IF ref.Tag # "" THEN ":" \o ref.Tag ELSE "")
    \o (IF ref.Digest # "" THEN "@" \o ref.Digest ELSE "")

\* The tenant-workspace repository of a downstream repository.
TenantRepos ==
    [r \in {"bpfman/bpfman-agent", "bpfman/bpfman-operator-bundle",
            "bpfman/bpfman-rhel9-operator", "bpfman/bpfman"} |->
        "redhat-user-workloads/ocp-bpfman-tenant/"
        \o (CASE r = "bpfman/bpfman-agent" -> "ocp-bpfman-agent"
              [] r = "bpfman/bpfman-operator-bundle" -> "ocp-bpfman-operator-bundle"
              [] r = "bpfman/bpfman-rhel9-operator" -> "ocp-bpfman-operator"
              [] OTHER -> "ocp-bpfman")]

ConvertToTenantWorkspace(ref) ==
    IF ref.Registry = "registry.redhat.io" /\ ref.Repo \in DOMAIN TenantRepos
    THEN [err |-> "", ref |-> [ref EXCEPT !.Registry = "quay.io",
                                          !.Repo = TenantRepos[ref.Repo]]]
    ELSE [err |-> "no tenant workspace mapping for " \o ImageRefString(ref),
          ref |-> NoImageRef]

DownstreamBundle == "registry.redhat.io/bpfman/bpfman-operator-bundle:v0.5.7"
TenantBundle ==
    "quay.io/redhat-user-workloads/ocp-bpfman-tenant/ocp-bpfman-operator-bundle:v0.5.7"
DownstreamAgent == "registry.redhat.io/bpfman/bpfman-agent:v0.5.7"
TenantAgent == "quay.io/redhat-user-workloads/ocp-bpfman-tenant/ocp-bpfman-agent:v0.5.7"
OtherBundle == "quay.io/other/bundle:v1"
OtherTool == "quay.io/other/tool:latest"
AgentOnlyBundle == "quay.io/other/agent-only-bundle:v1"
AnalysisImages ==
    {DownstreamBundle, TenantBundle, DownstreamAgent, TenantAgent, OtherBundle, OtherTool,
     AgentOnlyBundle}
AnalysisInputs == {DownstreamBundle, TenantBundle, OtherBundle, AgentOnlyBundle, "bundle"}

\* Which images the registries serve.
ReachStates == [AnalysisImages -> BOOLEAN]

\* The related images a bundle declares.
RelatedImagesOf(image) ==
    IF image = OtherBundle THEN <<OtherTool, "", OtherTool>>
    ELSE IF image = AgentOnlyBundle THEN <<DownstreamAgent>>
    ELSE <<DownstreamAgent, OtherTool, image>>

Inspect(ref) == [op |-> "inspect", ref |-> ref]
RenderOp(ref) == [op |-> "render", ref |-> ref]

\* inspectImageRef had it tried a reference again after a failure.
inspectImageRefRetrying(reach, imageRef) ==
    With(ImageRefString(imageRef), LAMBDA name :
        IF name \in DOMAIN reach /\ reach[name]
        THEN [err |-> "",
              info |-> <<[Created |-> "2025-01-01T00:00:00Z",
                          Labels |-> [k \in {"version", "vcs-ref"} |->
                                         IF k = "version" THEN imageRef.Tag
                                         ELSE "0123abc"]]>>,
              io |-> <<Inspect(name)>>]
        ELSE [err |-> "failed to create image: reading manifest of " \o name
                      \o ": unauthorized",
              info |-> <<>>,
              io |-> <<Inspect(name), Inspect(name)>>])

\* What the registry says of the image: its inspect info or an access error
\* naming the reference.
inspectImageRef(reach, imageRef) ==
    With(ImageRefString(imageRef), LAMBDA name :
        IF name \in DOMAIN reach /\ reach[name]
        THEN [err |-> "",
              info |-> <<[Created |-> "2025-01-01T00:00:00Z",
                          Labels |-> [k \in {"version", "vcs-ref"} |->
                                         IF k = "version" THEN imageRef.Tag
                                         ELSE "0123abc"]]>>,
              io |-> <<Inspect(name)>>]
        ELSE [err |-> "failed to create image: reading manifest of " \o name
                      \o ": unauthorized",
              info |-> <<>>,
              io |-> <<Inspect(name)>>])

Label(labels, key) == IF key \in DOMAIN labels THEN labels[key] ELSE ""

convertToImageInfo(info) ==
    IF info = <<>> THEN <<>>
    ELSE <<[Created |-> info[1].Created,
            Version |-> Label(info[1].Labels, "version"),
            GitCommit |-> IF Label(info[1].Labels, "io.openshift.build.commit.id") # ""
                          THEN Label(info[1].Labels, "io.openshift.build.commit.id")
                          ELSE Label(info[1].Labels, "vcs-ref"),
            GitURL |-> IF Label(info[1].Labels, "io.openshift.build.source-location") # ""
                       THEN Label(info[1].Labels, "io.openshift.build.source-location")
                       ELSE Label(info[1].Labels, "vcs-url"),
            PRTitle |-> Label(info[1].Labels, "io.openshift.build.name")]>>

ExtractImageMetadata(reach, imageRef) ==
    With(inspectImageRef(reach, imageRef), LAMBDA inspected :
        [err |-> inspected.err,
         info |-> convertToImageInfo(inspected.info),
         io |-> inspected.io])

\* InspectImage had it left the error text out when the reference has no
\* tenant-workspace counterpart.
InspectImageSilentOnConversion(reach, imageRefStr) ==
    With(ParseImageRef(imageRefStr), LAMBDA parsed :
        IF parsed.err # ""
        THEN [result |-> [Reference |-> imageRefStr, Accessible |-> FALSE,
                          Registry |-> "NotAccessible",
                          Error |-> "invalid image reference: " \o parsed.err,
                          Info |-> <<>>],
              err |-> "",
              io |-> <<>>]
        ELSE
    With(inspectImageRef(reach, parsed.ref), LAMBDA direct :
        IF direct.err = ""
        THEN [result |-> [Reference |-> imageRefStr, Accessible |-> TRUE,
                          Registry |->
                              IF parsed.ref.Registry = "registry.redhat.io"
                              THEN "DownstreamRegistry"
                              ELSE IF parsed.ref.Registry = "quay.io"
                                      /\ Contains(parsed.ref.Repo, "redhat-user-workloads")
                              THEN "TenantWorkspace"
                              ELSE "DownstreamRegistry",
                          Error |-> "",
                          Info |-> convertToImageInfo(direct.info)],
              err |-> "",
              io |-> direct.io]
        ELSE
    With(ConvertToTenantWorkspace(parsed.ref), LAMBDA tenant :
        IF tenant.err # ""
        THEN [result |-> [Reference |-> imageRefStr, Accessible |-> FALSE,
                          Registry |-> "NotAccessible",
                          Error |-> "",
                          Info |-> <<>>],
              err |-> "",
              io |-> direct.io]
        ELSE
    With(inspectImageRef(reach, tenant.ref), LAMBDA second :
        IF second.err = ""
        THEN [result |-> [Reference |-> imageRefStr, Accessible |-> TRUE,
                          Registry |-> "TenantWorkspace",
                          Error |-> "",
                          Info |-> convertToImageInfo(second.info)],
              err |-> "",
              io |-> direct.io \o second.io]
        ELSE [result |-> [Reference |-> imageRefStr, Accessible |-> FALSE,
                          Registry |-> "NotAccessible",
                          Error |-> "not accessible in downstream or tenant registry",
                          Info |-> <<>>],
              err |-> "",
              io |-> direct.io \o second.io]))))

\* What the call hands back: its error (always nil), the *ImageResult and the
\* registry calls it made, in order.
InspectImage(reach, imageRefStr) ==
    With(ParseImageRef(imageRefStr), LAMBDA parsed :
        IF parsed.err # ""
        THEN [result |-> [Reference |-> imageRefStr, Accessible |-> FALSE,
                          Registry |-> "NotAccessible",
                          Error |-> "invalid image reference: " \o parsed.err,
                          Info |-> <<>>],
              err |-> "",
              io |-> <<>>]
        ELSE
    With(inspectImageRef(reach, parsed.ref), LAMBDA direct :
        IF direct.err = ""
        THEN [result |-> [Reference |-> imageRefStr, Accessible |-> TRUE,
                          Registry |->
                              IF parsed.ref.Registry = "registry.redhat.io"
                              THEN "DownstreamRegistry"
                              ELSE IF parsed.ref.Registry = "quay.io"
                                      /\ Contains(parsed.ref.Repo, "redhat-user-workloads")
                              THEN "TenantWorkspace"
                              ELSE "DownstreamRegistry",
                          Error |-> "",
                          Info |-> convertToImageInfo(direct.info)],
              err |-> "",
              io |-> direct.io]
        ELSE
    With(ConvertToTenantWorkspace(parsed.ref), LAMBDA tenant :
        IF tenant.err # ""
        THEN [result |-> [Reference |-> imageRefStr, Accessible |-> FALSE,
                          Registry |-> "NotAccessible",
                          Error |-> "not accessible in any registry",
                          Info |-> <<>>],
              err |-> "",
              io |-> direct.io]
        ELSE
    With(inspectImageRef(reach, tenant.ref), LAMBDA second :
        IF second.err = ""
        THEN [result |-> [Reference |-> imageRefStr, Accessible |-> TRUE,
                          Registry |-> "TenantWorkspace",
                          Error |-> "",
                          Info |-> convertToImageInfo(second.info)],
              err |-> "",
              io |-> direct.io \o second.io]
        ELSE [result |-> [Reference |-> imageRefStr, Accessible |-> FALSE,
                          Registry |-> "NotAccessible",
                          Error |-> "not accessible in downstream or tenant registry",
                          Info |-> <<>>],
              err |-> "",
              io |-> direct.io \o second.io]))))

\* The registry calls of the images, one image after the other.
RECURSIVE Flatten(_)
Flatten(seqs) == IF seqs = <<>> THEN <<>> ELSE Head(seqs) \o Flatten(Tail(seqs))

\* InspectImages had it given up at the first image that is not accessible.
InspectImagesStoppingAtFailure(reach, imageRefs) ==
    With([i \in DOMAIN imageRefs |-> InspectImage(reach, imageRefs[i])], LAMBDA inspected :
        LET failed == {i \in DOMAIN imageRefs : ~inspected[i].result.Accessible}
            first == CHOOSE i \in failed : \A j \in failed : i <= j
        IN  IF failed # {}
            THEN [err |-> "inspection failed: " \o inspected[first].result.Error,
                  results |-> <<>>,
                  io |-> Flatten([i \in 1..first |-> inspected[i].io])]
            ELSE [err |-> "",
                  results |-> [i \in DOMAIN imageRefs |-> inspected[i].result],
                  io |-> Flatten([i \in DOMAIN imageRefs |-> inspected[i].io])])

\* results[i] is the result of imageRefs[i]; the error is always nil.
InspectImages(reach, imageRefs) ==
    With([i \in DOMAIN imageRefs |-> InspectImage(reach, imageRefs[i])], LAMBDA inspected :
        [err |-> "",
         results |-> [i \in DOMAIN imageRefs |->
                         IF inspected[i].err # ""
                         THEN [Reference |-> imageRefs[i], Accessible |-> FALSE,
                               Registry |-> "NotAccessible",
                               Error |-> "inspection failed: " \o inspected[i].err,
                               Info |-> <<>>]
                         ELSE inspected[i].result],
         io |-> Flatten([i \in DOMAIN imageRefs |-> inspected[i].io])])

CalculateSummary(results) ==
    LET Count(P(_)) == Cardinality({i \in DOMAIN results : P(results[i])})
    IN  [TotalImages |-> Len(results),
         AccessibleImages |-> Count(LAMBDA r : r.Accessible),
         DownstreamImages |->
             Count(LAMBDA r : r.Accessible /\ r.Registry = "DownstreamRegistry"),
         TenantImages |-> Count(LAMBDA r : r.Accessible /\ r.Registry = "TenantWorkspace"),
         InaccessibleImages |-> Count(LAMBDA r : ~r.Accessible)]

RECURSIVE deduplicateStrings(_)
deduplicateStrings(slice) ==
    IF slice = <<>> THEN <<>>
    ELSE With(deduplicateStrings(SubSeq(slice, 1, Len(slice) - 1)), LAMBDA result :
             IF \E i \in DOMAIN result : result[i] = slice[Len(slice)]
             THEN result ELSE Append(result, slice[Len(slice)]))

\* The bundle's declarative config as the render capability hands it back.
RenderBundle(reach, name) ==
    IF name \in DOMAIN reach /\ reach[name]
    THEN [err |-> "",
          Bundles |-> <<[Image |-> name, RelatedImages |-> RelatedImagesOf(name)]>>]
    ELSE [err |-> "render " \o name \o ": unreachable", Bundles |-> <<>>]

\* The loop over a rendered bundle had it appended every related image, the
\* ones with an empty reference too.
collectImagesKeepingEmpty(bundle) ==
    (IF bundle.Image # "" THEN <<bundle.Image>> ELSE <<>>) \o bundle.RelatedImages

\* The loop over a rendered bundle: its own image, then its related images,
\* the empty references left out.
collectImages(bundle) ==
    (IF bundle.Image # "" THEN <<bundle.Image>> ELSE <<>>)
    \o SelectSeq(bundle.RelatedImages, LAMBDA image : image # "")

\* ExtractImageReferences had it collected the related images only.
ExtractImageReferencesRelatedOnly(reach, bundleRef) ==
    With(ImageRefString(bundleRef), LAMBDA name :
    With(RenderBundle(reach, name), LAMBDA cfg :
        IF cfg.err # ""
        THEN [err |-> "rendering bundle: " \o cfg.err, images |-> <<>>,
              io |-> <<RenderOp(name)>>]
        ELSE [err |-> "",
              images |-> deduplicateStrings(
                  SelectSeq(cfg.Bundles[1].RelatedImages, LAMBDA image : image # "")),
              io |-> <<RenderOp(name)>>]))

ExtractImageReferences(reach, bundleRef) ==
    With(ImageRefString(bundleRef), LAMBDA name :
    With(RenderBundle(reach, name), LAMBDA cfg :
        IF cfg.err # ""
        THEN [err |-> "rendering bundle: " \o cfg.err, images |-> <<>>,
              io |-> <<RenderOp(name)>>]
        ELSE [err |-> "",
              images |-> deduplicateStrings(collectImages(cfg.Bundles[1])),
              io |-> <<RenderOp(name)>>]))

extractBundleMetadata(reach, bundleRef) ==
    With(ExtractImageMetadata(reach, bundleRef), LAMBDA direct :
        IF direct.err = "" THEN direct
        ELSE
    With(ConvertToTenantWorkspace(bundleRef), LAMBDA tenant :
        IF tenant.err # ""
        THEN [err |-> "bundle not accessible and cannot convert to tenant workspace: "
                      \o tenant.err,
              info |-> <<>>, io |-> direct.io]
        ELSE
    With(ExtractImageMetadata(reach, tenant.ref), LAMBDA second :
        IF second.err # ""
        THEN [err |-> "bundle not accessible in any registry: " \o second.err,
              info |-> <<>>, io |-> direct.io \o second.io]
        ELSE [err |-> "", info |-> second.info, io |-> direct.io \o second.io])))

\* What the call hands back: err, the *BundleAnalysis (<<>> is nil) and the
\* registry calls it made, in order.
AnalyzeBundle(reach, bundleRefStr) ==
    With(ParseImageRef(bundleRefStr), LAMBDA parsed :
        IF parsed.err # ""
        THEN [err |-> "invalid bundle reference: " \o parsed.err,
              analysis |-> <<>>, io |-> <<>>]
        ELSE
    With(extractBundleMetadata(reach, parsed.ref), LAMBDA bundleInfo :
        IF bundleInfo.err # ""
        THEN [err |-> "failed to extract bundle metadata: " \o bundleInfo.err,
              analysis |-> <<>>, io |-> bundleInfo.io]
        ELSE
    With(ExtractImageReferences(reach, parsed.ref), LAMBDA imageRefs :
        IF imageRefs.err # ""
        THEN [err |-> "failed to extract image references: " \o imageRefs.err,
              analysis |-> <<>>, io |-> bundleInfo.io \o imageRefs.io]
        ELSE
    With(InspectImages(reach, imageRefs.images), LAMBDA imageResults :
        [err |-> "",
         analysis |-> <<[BundleRef |-> parsed.ref,
                         BundleInfo |-> bundleInfo.info,
                         Images |-> imageResults.results,
                         Summary |-> CalculateSummary(imageResults.results)]>>,
         io |-> bundleInfo.io \o imageRefs.io \o imageResults.io]))))

\* The summary is left as AnalyzeBundle computed it over the unfiltered list.
AnalyzeBundleWithConfigKeepingSummary(reach, bundleRefStr, config) ==
    With(AnalyzeBundle(reach, bundleRefStr), LAMBDA analysed :
        IF analysed.err # "" THEN analysed
        ELSE IF ~config.ShowAll
        THEN With(SelectSeq(analysed.analysis[1].Images, LAMBDA img : img.Accessible),
                  LAMBDA filteredImages :
                 [analysed EXCEPT !.analysis =
                     <<[analysed.analysis[1] EXCEPT !.Images = filteredImages]>>])
        ELSE analysed)

AnalyzeBundleWithConfig(reach, bundleRefStr, config) ==
    With(AnalyzeBundle(reach, bundleRefStr), LAMBDA analysed :
        IF analysed.err # "" THEN analysed
        ELSE IF ~config.ShowAll
        THEN With(SelectSeq(analysed.analysis[1].Images, LAMBDA img : img.Accessible),
                  LAMBDA filteredImages :
                 [analysed EXCEPT !.analysis =
                     <<[analysed.analysis[1] EXCEPT
                           !.Images = filteredImages,
                           !.Summary = CalculateSummary(filteredImages)]>>])
        ELSE analysed)

\* How many references a caller hands to InspectImages at most.
MaxImages == 2
InspectRefs == {DownstreamAgent, OtherTool, "no reference"}
InspectLists == UNION {[1..n -> InspectRefs] : n \in 0..MaxImages}

AnalysisIdle ==
    /\ reachable = [i \in AnalysisImages |-> TRUE]
    /\ analysisIn = ""
    /\ analysisOut = <<>>
    /\ inspectIn = <<>>
    /\ inspectOut = <<>>
    /\ imageOut = <<>>

(***************************************************************************)
(* pkg/bundle and cmd/bpfman-catalog: catalog build artefacts of a bundle  *)
(***************************************************************************)

\* yaml.Marshal of a template: its schema and the schema and name of each entry
RECURSIVE MarshalEntries(_)
MarshalEntries(entries) ==
    IF entries = <<>> THEN ""
    ELSE "- schema: " \o Head(entries).Schema \o "\n  name: " \o Head(entries).Name
         \o "\n" \o MarshalEntries(Tail(entries))

MarshalYAML(template) ==
    "schema: " \o template.Schema \o "\nentries:\n" \o MarshalEntries(template.Entries)

GenerateCatalogDockerfile ==
    "FROM registry.redhat.io/openshift4/ose-operator-registry-rhel9:v4.20 AS builder\nCOPY catalog.yaml /configs/catalog.yaml\n"

\* strings.Index for a sep of any length, counted from 1; 0 when absent
IndexOf(s, sep) ==
    LET at == {i \in 1..(Len(s) - Len(sep) + 1) : SubSeq(s, i, i + Len(sep) - 1) = sep}
    IN  IF at = {} THEN 0 ELSE CHOOSE i \in at : \A j \in at : i <= j

\* The first 8 characters after "@sha256:", "" when there are fewer.
extractDigestSuffix(imageRef) ==
    LET idx == IndexOf(imageRef, "@sha256:")
        digestStr == SubSeq(imageRef, idx + 8, Len(imageRef))
    IN  IF idx # 0 /\ Len(digestStr) >= 8 THEN SubSeq(digestStr, 1, 8) ELSE ""

GenerateMakefile(bundleImage, binaryPath) ==
    LET digestSuffix == extractDigestSuffix(bundleImage)
        localTag == IF digestSuffix # "" THEN "bpfman-catalog-sha-" \o digestSuffix
                    ELSE "bpfman-catalog"
    IN  "BUNDLE_IMAGE := " \o bundleImage \o "\nLOCAL_TAG := " \o localTag
        \o "\nBPFMAN_CATALOG := " \o binaryPath \o "\n"

GenerateWorkflow(bundleCount, catalogRendered, outputDir) ==
    "bundles: " \o ToString(bundleCount) \o "\ncatalog rendered: "
    \o (IF catalogRendered THEN "true" ELSE "false") \o "\noutput: " \o outputDir \o "\n"

NoBundleGenerator == [bundleImage |-> "", channel |-> "", ompBinPath |-> ""]

BundleNewGenerator(bundleImage, channel) ==
    [bundleImage |-> bundleImage,
     channel |-> IF channel = "" THEN "preview" ELSE channel,
     ompBinPath |-> ""]

NewGeneratorWithOmp(bundleImage, channel, ompBinPath) ==
    [bundleImage |-> bundleImage,
     channel |-> IF channel = "" THEN "preview" ELSE channel,
     ompBinPath |-> ompBinPath]

\* template.Render with the caller's context: done is whether the context is
\* cancelled when the call starts or before it completes, fails whether the
\* registry refuses the bundle.
RenderCatalog(done, fails, fbcTemplate) ==
    IF done THEN [err |-> "rendering template: context canceled", yaml |-> ""]
    ELSE IF fails
    THEN [err |-> "rendering template: render " \o fbcTemplate.Entries[3].Image
                  \o ": unreachable",
          yaml |-> ""]
    ELSE [err |-> "", yaml |-> "rendered\n" \o MarshalYAML(fbcTemplate)]

\* exec.CommandContext and cmd.Output: a context done at the start fails
\* Start with the context's error; a context done while opm runs kills it,
\* and the kill is an *exec.ExitError with exit code -1.
RenderCatalogWithBinary(doneAtStart, done, fails, fbcTemplate, ompBinPath) ==
    IF doneAtStart THEN [err |-> "running omp command: context canceled", yaml |-> ""]
    ELSE IF done THEN [err |-> "omp command failed with exit code -1: ", yaml |-> ""]
    ELSE IF fails
    THEN [err |-> "omp command failed with exit code 1: render failed", yaml |-> ""]
    ELSE [err |-> "", yaml |-> "rendered\n" \o MarshalYAML(fbcTemplate)]

\* Generate up to the render call: its early return, or the artefacts built
\* so far and the template to render.
GenerateBeforeRender(reg, g) ==
    With(GenerateFBCTemplate(reg, g.bundleImage, g.channel), LAMBDA built :
        IF built.err # ""
        THEN [err |-> "generating FBC template: " \o built.err, artefacts |-> <<>>,
              template |-> NoTemplate]
        ELSE [err |-> "",
              artefacts |-> <<[FBCTemplate |-> MarshalYAML(built.template),
                               CatalogYAML |-> "",
                               Dockerfile |-> GenerateCatalogDockerfile,
                               Makefile |-> GenerateMakefile(g.bundleImage,
                                                             "bpfman-catalog")]>>,
              template |-> built.template])

\* Generate from the return of the render call.
GenerateAfterRender(artefacts, rendered) ==
    IF rendered.err # ""
    THEN [err |-> "rendering catalog: " \o rendered.err, artefacts |-> artefacts]
    ELSE [err |-> "",
          artefacts |-> <<[artefacts[1] EXCEPT !.CatalogYAML = rendered.yaml]>>]

EmptyDir == [f \in {} |-> ""]

\* Cmd.Run from the return of Generate: the error it returns and the output
\* directory it leaves.
RunAfterGenerate(dir, outputDir, gendone) ==
    IF gendone.err # ""
    THEN [err |-> "generating bundle artefacts: " \o gendone.err, dir |-> dir]
    ELSE With(gendone.artefacts[1], LAMBDA artefacts :
         With(artefacts.CatalogYAML # "", LAMBDA catalogRendered :
             [err |-> "",
              dir |-> [f \in {"WORKFLOW.txt"} |->
                          GenerateWorkflow(0, catalogRendered, outputDir)]
                      @@ [f \in {"Makefile"} |-> artefacts.Makefile]
                      @@ [f \in {"Dockerfile"} |-> artefacts.Dockerfile]
                      @@ (IF artefacts.CatalogYAML # ""
                          THEN [f \in {"catalog.yaml"} |-> artefacts.CatalogYAML]
                          ELSE EmptyDir)
                      @@ [f \in {"fbc-template.yaml"} |-> artefacts.FBCTemplate]
                      @@ dir]))

\* filepath.Clean of the output directories the model offers
Clean(path) == IF path \in {"", ".", "./"} THEN "." ELSE path

CliInputs ==
    [BundleImage : {BundleA.Image, BundleN.Image},
     OutputDir : {"./", "auto-generated/artefacts"},
     OpmBin : {"", "/usr/bin/opm"}]

CliIdle ==
    /\ cliIn = [BundleImage |-> "", OutputDir |-> "", OpmBin |-> ""]
    /\ cliPc = "idle"
    /\ mainPc = "idle"
    /\ ctxDone = FALSE
    /\ sigChan = FALSE
    /\ renderFails = FALSE
    /\ bundleGen = NoBundleGenerator
    /\ generated = [err |-> "", artefacts |-> <<>>]
    /\ pendingTemplate = NoTemplate
    /\ outDir = EmptyDir
    /\ calls = <<>>
    /\ cliErr = ""
    /\ exitCode = 0
    /\ errChan = <<>>

\* errChan := make(chan error, 1)
ErrChanCap == 1

CatalogIdle ==
    /\ metaIn = ""
    /\ metaOut = <<>>

RenderIdle ==
    /\ renderPc = "idle"
    /\ renderCtxDone = FALSE
    /\ tempDirs = {}
    /\ tempDir = 0
    /\ mkdirCount = 0
    /\ renderOut = <<>>

\* How many times a caller repeats a template-builder call on the same arguments.
MaxRuns == 2

FbcCalls ==
    {[op |-> "single", bundles |-> <<>>, image |-> image, channel |-> channel] :
        image \in BundleImages \cup {""}, channel \in Channels}
    \cup
    {[op |-> "multi", bundles |-> bundles, image |-> "", channel |-> channel] :
        bundles \in BundleLists, channel \in Channels}

\* The registry state and the arguments of the call are the inputs; no call
\* has returned yet.
InitFBC ==
    /\ registry \in RegistryStates
    /\ fbcIn \in FbcCalls
    /\ fbcOut = <<>>
    /\ ManifestsIdle
    /\ AnalysisIdle
    /\ CliIdle
    /\ CatalogIdle
    /\ RenderIdle

\* A caller builds the template of one bundle image.
CallGenerateFBCTemplate ==
    /\ fbcIn.op = "single"
    /\ Len(fbcOut) < MaxRuns
    /\ fbcOut' = Append(fbcOut, GenerateFBCTemplate(registry, fbcIn.image, fbcIn.channel))
    /\ UNCHANGED <<registry, fbcIn>>
    /\ UNCHANGED manifestVars
    /\ UNCHANGED analysisVars
    /\ UNCHANGED cliVars
    /\ UNCHANGED catalogVars
    /\ UNCHANGED renderVars

\* A caller builds the upgrade chain of a bundle list.
CallGenerateMultiBundleFBCTemplate ==
    /\ fbcIn.op = "multi"
    /\ Len(fbcOut) < MaxRuns
    /\ fbcOut' = Append(fbcOut, GenerateMultiBundleFBCTemplate(registry, fbcIn.bundles,
                                                               fbcIn.channel))
    /\ UNCHANGED <<registry, fbcIn>>
    /\ UNCHANGED manifestVars
    /\ UNCHANGED analysisVars
    /\ UNCHANGED cliVars
    /\ UNCHANGED catalogVars
    /\ UNCHANGED renderVars

\* How far the clock runs, in seconds.
MaxClock == 2

\* A second passes.
Tick ==
    /\ clock < MaxClock
    /\ clock' = clock + 1
    /\ UNCHANGED <<gen, catalogChannel, manifestOut>>
    /\ UNCHANGED fbcVars
    /\ UNCHANGED analysisVars
    /\ UNCHANGED cliVars
    /\ UNCHANGED catalogVars
    /\ UNCHANGED renderVars

\* Time passes between the runs.
NextFBC == CallGenerateFBCTemplate \/ CallGenerateMultiBundleFBCTemplate \/ Tick

SpecFBC == InitFBC /\ [][NextFBC]_vars

(***************************************************************************)
(* pkg/manifests: generating the manifests of a catalog image               *)
(***************************************************************************)

FbcIdle ==
    /\ registry = [i \in BundleImages |-> "ok"]
    /\ fbcIn = [op |-> "single", bundles |-> <<>>, image |-> "", channel |-> ""]
    /\ fbcOut = <<>>

InitManifests ==
    /\ gen = NoGenerator
    /\ catalogChannel \in CatalogChannels
    /\ clock = 0
    /\ manifestOut = <<>>
    /\ FbcIdle
    /\ AnalysisIdle
    /\ CliIdle
    /\ CatalogIdle
    /\ RenderIdle

\* The command constructs the generator from its flags.
CallNewGenerator ==
    /\ ~gen.made
    /\ \E config \in GeneratorConfigs : gen' = NewGenerator(config)
    /\ UNCHANGED <<catalogChannel, clock, manifestOut>>
    /\ UNCHANGED fbcVars
    /\ UNCHANGED analysisVars
    /\ UNCHANGED cliVars
    /\ UNCHANGED catalogVars
    /\ UNCHANGED renderVars

\* The command generates the manifest set.
CallGenerateFromCatalog ==
    /\ gen.made
    /\ Len(manifestOut) < MaxRuns
    /\ \E res \in {GenerateFromCatalog(gen, catalogChannel, clock)} :
           /\ gen' = res.gen
           /\ manifestOut' = Append(manifestOut, [err |-> res.err, set |-> res.set])
    /\ UNCHANGED <<catalogChannel, clock>>
    /\ UNCHANGED fbcVars
    /\ UNCHANGED analysisVars
    /\ UNCHANGED cliVars
    /\ UNCHANGED catalogVars
    /\ UNCHANGED renderVars

NextManifests == CallNewGenerator \/ CallGenerateFromCatalog \/ Tick

SpecManifests == InitManifests /\ [][NextManifests]_vars

(***************************************************************************)
(* pkg/analysis: analysing a bundle                                        *)
(***************************************************************************)

\* Either a bundle reference is analysed or (analysisIn = "") a list of image
\* references is inspected.
InitAnalysis ==
    /\ reachable \in ReachStates
    /\ \/ analysisIn \in AnalysisInputs /\ inspectIn = <<>>
       \/ analysisIn = "" /\ inspectIn \in InspectLists
    /\ analysisOut = <<>>
    /\ inspectOut = <<>>
    /\ imageOut = <<>>
    /\ FbcIdle
    /\ ManifestsIdle
    /\ CliIdle
    /\ CatalogIdle
    /\ RenderIdle

\* The command analyses the bundle.
CallAnalyzeBundle ==
    /\ analysisIn # ""
    /\ Len(analysisOut) < MaxRuns
    /\ \E analysed \in {AnalyzeBundle(reachable, analysisIn)} :
           analysisOut' = Append(analysisOut,
                                 [err |-> analysed.err, analysis |-> analysed.analysis,
                                  io |-> analysed.io, config |-> <<>>])
    /\ UNCHANGED <<reachable, analysisIn, inspectIn, inspectOut, imageOut>>
    /\ UNCHANGED fbcVars
    /\ UNCHANGED manifestVars
    /\ UNCHANGED cliVars
    /\ UNCHANGED catalogVars
    /\ UNCHANGED renderVars

\* The command analyses the bundle with its --show-all flag.
CallAnalyzeBundleWithConfig ==
    /\ analysisIn # ""
    /\ Len(analysisOut) < MaxRuns
    /\ \E config \in [ShowAll : BOOLEAN] :
       \E analysed \in {AnalyzeBundleWithConfig(reachable, analysisIn, config)} :
           analysisOut' = Append(analysisOut,
                                 [err |-> analysed.err, analysis |-> analysed.analysis,
                                  io |-> analysed.io, config |-> <<config>>])
    /\ UNCHANGED <<reachable, analysisIn, inspectIn, inspectOut, imageOut>>
    /\ UNCHANGED fbcVars
    /\ UNCHANGED manifestVars
    /\ UNCHANGED cliVars
    /\ UNCHANGED catalogVars
    /\ UNCHANGED renderVars

\* A caller inspects a list of image references.
CallInspectImages ==
    /\ analysisIn = ""
    /\ Len(inspectOut) < MaxRuns
    /\ inspectOut' = Append(inspectOut, InspectImages(reachable, inspectIn))
    /\ UNCHANGED <<reachable, analysisIn, analysisOut, inspectIn, imageOut>>
    /\ UNCHANGED fbcVars
    /\ UNCHANGED manifestVars
    /\ UNCHANGED cliVars
    /\ UNCHANGED catalogVars
    /\ UNCHANGED renderVars

\* One reference of the list is inspected on its own.
CallInspectImage ==
    /\ analysisIn = ""
    /\ Len(imageOut) < MaxRuns
    /\ \E i \in DOMAIN inspectIn :
           imageOut' = Append(imageOut, InspectImage(reachable, inspectIn[i]))
    /\ UNCHANGED <<reachable, analysisIn, analysisOut, inspectIn, inspectOut>>
    /\ UNCHANGED fbcVars
    /\ UNCHANGED manifestVars
    /\ UNCHANGED cliVars
    /\ UNCHANGED catalogVars
    /\ UNCHANGED renderVars

NextAnalysis ==
    CallAnalyzeBundle \/ CallAnalyzeBundleWithConfig \/ CallInspectImages \/ CallInspectImage

SpecAnalysis == InitAnalysis /\ [][NextAnalysis]_vars

(***************************************************************************)
(* cmd/bpfman-catalog: prepare-catalog-build-from-bundle under main        *)
(***************************************************************************)

InitCLI ==
    /\ cliIn \in CliInputs
    /\ registry \in RegistryStates
    /\ renderFails \in BOOLEAN
    /\ outDir \in {EmptyDir, [f \in {"catalog.yaml"} |-> "stale"]}
    /\ cliPc = "start"
    /\ mainPc = "select"
    /\ ctxDone = FALSE
    /\ sigChan = FALSE
    /\ bundleGen = NoBundleGenerator
    /\ generated = [err |-> "", artefacts |-> <<>>]
    /\ pendingTemplate = NoTemplate
    /\ calls = <<>>
    /\ cliErr = ""
    /\ exitCode = 0
    /\ errChan = <<>>
    /\ fbcIn = [op |-> "single", bundles |-> <<>>, image |-> "", channel |-> ""]
    /\ fbcOut = <<>>
    /\ ManifestsIdle
    /\ AnalysisIdle
    /\ CatalogIdle
    /\ RenderIdle

\* The render call returned: Generate and Run finish.
FinishRun(rendered, op) ==
    \E gendone \in {GenerateAfterRender(generated.artefacts, rendered)} :
    \E ran \in {RunAfterGenerate(outDir, cliIn.OutputDir, gendone)} :
        /\ generated' = gendone
        /\ calls' = Append(calls, [op |-> op, done |-> ctxDone, err |-> rendered.err])
        /\ cliErr' = ran.err
        /\ outDir' = ran.dir
        /\ pendingTemplate' = NoTemplate
        /\ cliPc' = "returned"

\* Run up to the bundle render of extractBundleInfo: the output directory is
\* checked and cleaned, the generator constructed, and Generate is waiting
\* for r.Run(context.Background()).
RunStart ==
    /\ cliPc = "start"
    /\ IF Clean(cliIn.OutputDir) = "."
       THEN /\ cliErr' = "output directory cannot be the current working directory, please specify a named subdirectory like 'auto-generated/artefacts'"
            /\ cliPc' = "returned"
            /\ UNCHANGED <<bundleGen, outDir>>
       ELSE /\ outDir' = EmptyDir
            /\ bundleGen' = IF cliIn.OpmBin # ""
                            THEN NewGeneratorWithOmp(cliIn.BundleImage, "preview",
                                                     cliIn.OpmBin)
                            ELSE BundleNewGenerator(cliIn.BundleImage, "preview")
            /\ cliPc' = "extract"
            /\ UNCHANGED cliErr
    /\ UNCHANGED <<cliIn, registry, renderFails, mainPc, ctxDone, sigChan, generated,
                   pendingTemplate, calls, exitCode, errChan>>
    /\ UNCHANGED <<fbcIn, fbcOut>>
    /\ UNCHANGED manifestVars
    /\ UNCHANGED analysisVars
    /\ UNCHANGED catalogVars
    /\ UNCHANGED renderVars

\* The bundle render of extractBundleInfo returned.  On an error Generate and
\* Run return; otherwise the artefacts are built and the catalog render is
\* called, which returns at once when the context is already cancelled.
ExtractDone ==
    /\ cliPc = "extract"
    /\ \E before \in {GenerateBeforeRender(registry, bundleGen)} :
       \E call \in {[op |-> "extractBundleInfo", done |-> ctxDone,
                     err |-> extractBundleInfo(registry, bundleGen.bundleImage).err]} :
           IF before.err # ""
           THEN \E ran \in {RunAfterGenerate(outDir, cliIn.OutputDir, before)} :
                    /\ generated' = [err |-> before.err, artefacts |-> before.artefacts]
                    /\ calls' = Append(calls, call)
                    /\ cliErr' = ran.err
                    /\ outDir' = ran.dir
                    /\ cliPc' = "returned"
                    /\ UNCHANGED pendingTemplate
           ELSE IF ctxDone
           THEN \E rendered \in {IF bundleGen.ompBinPath # ""
                                 THEN RenderCatalogWithBinary(TRUE, TRUE, renderFails,
                                          before.template, bundleGen.ompBinPath)
                                 ELSE RenderCatalog(TRUE, renderFails, before.template)} :
                \E gendone \in {GenerateAfterRender(before.artefacts, rendered)} :
                \E ran \in {RunAfterGenerate(outDir, cliIn.OutputDir, gendone)} :
                    /\ generated' = gendone
                    /\ calls' = calls \o <<call,
                                  [op |-> IF bundleGen.ompBinPath # ""
                                          THEN "RenderCatalogWithBinary"
                                          ELSE "RenderCatalog",
                                   done |-> TRUE, err |-> rendered.err]>>
                    /\ cliErr' = ran.err
                    /\ outDir' = ran.dir
                    /\ cliPc' = "returned"
                    /\ UNCHANGED pendingTemplate
           ELSE /\ generated' = [err |-> "", artefacts |-> before.artefacts]
                /\ pendingTemplate' = before.template
                /\ calls' = Append(calls, call)
                /\ cliPc' = "render"
                /\ UNCHANGED <<cliErr, outDir>>
    /\ UNCHANGED <<cliIn, registry, renderFails, mainPc, ctxDone, sigChan, bundleGen,
                   exitCode, errChan>>
    /\ UNCHANGED <<fbcIn, fbcOut>>
    /\ UNCHANGED manifestVars
    /\ UNCHANGED analysisVars
    /\ UNCHANGED catalogVars
    /\ UNCHANGED renderVars

\* The catalog render, started under a live context, returned.
RenderDone ==
    /\ cliPc = "render"
    /\ IF bundleGen.ompBinPath # ""
       THEN FinishRun(RenderCatalogWithBinary(FALSE, ctxDone, renderFails,
                          pendingTemplate, bundleGen.ompBinPath),
                      "RenderCatalogWithBinary")
       ELSE FinishRun(RenderCatalog(ctxDone, renderFails, pendingTemplate),
                      "RenderCatalog")
    /\ UNCHANGED <<cliIn, registry, renderFails, mainPc, ctxDone, sigChan, bundleGen,
                   exitCode, errChan>>
    /\ UNCHANGED <<fbcIn, fbcOut>>
    /\ UNCHANGED manifestVars
    /\ UNCHANGED analysisVars
    /\ UNCHANGED catalogVars
    /\ UNCHANGED renderVars

\* The command goroutine hands the error Run returned to errChan.
SendErr ==
    /\ cliPc = "returned"
    /\ mainPc # "exited"
    /\ Len(errChan) < ErrChanCap
    /\ errChan' = Append(errChan, cliErr)
    /\ cliPc' = "sent"
    /\ UNCHANGED <<cliIn, registry, renderFails, mainPc, ctxDone, sigChan, bundleGen,
                   generated, pendingTemplate, outDir, calls, cliErr, exitCode>>
    /\ UNCHANGED <<fbcIn, fbcOut>>
    /\ UNCHANGED manifestVars
    /\ UNCHANGED analysisVars
    /\ UNCHANGED catalogVars
    /\ UNCHANGED renderVars

\* SIGINT or SIGTERM arrives.
Signal ==
    /\ mainPc # "exited"
    /\ ~sigChan
    /\ sigChan' = TRUE
    /\ UNCHANGED <<cliIn, registry, renderFails, cliPc, mainPc, ctxDone, bundleGen,
                   generated, pendingTemplate, outDir, calls, cliErr, exitCode, errChan>>
    /\ UNCHANGED <<fbcIn, fbcOut>>
    /\ UNCHANGED manifestVars
    /\ UNCHANGED analysisVars
    /\ UNCHANGED catalogVars
    /\ UNCHANGED renderVars

\* main had it left at once after cancelling the context.
MainReceivesSignalExitingAtOnce ==
    /\ mainPc = "select"
    /\ sigChan
    /\ sigChan' = FALSE
    /\ ctxDone' = TRUE
    /\ mainPc' = "exited"
    /\ UNCHANGED <<cliIn, registry, renderFails, cliPc, bundleGen, generated,
                   pendingTemplate, outDir, calls, cliErr, exitCode, errChan>>
    /\ UNCHANGED <<fbcIn, fbcOut>>
    /\ UNCHANGED manifestVars
    /\ UNCHANGED analysisVars
    /\ UNCHANGED catalogVars
    /\ UNCHANGED renderVars

\* main takes the signal and cancels the context.
MainReceivesSignal ==
    /\ mainPc = "select"
    /\ sigChan
    /\ sigChan' = FALSE
    /\ ctxDone' = TRUE
    /\ mainPc' = "waitErr"
    /\ UNCHANGED <<cliIn, registry, renderFails, cliPc, bundleGen, generated,
                   pendingTemplate, outDir, calls, cliErr, exitCode, errChan>>
    /\ UNCHANGED <<fbcIn, fbcOut>>
    /\ UNCHANGED manifestVars
    /\ UNCHANGED analysisVars
    /\ UNCHANGED catalogVars
    /\ UNCHANGED renderVars

\* main takes the command's error and exits.
MainReceivesErr ==
    /\ mainPc \in {"select", "waitErr"}
    /\ errChan # <<>>
    /\ exitCode' = IF Head(errChan) # "" THEN 1 ELSE 0
    /\ errChan' = Tail(errChan)
    /\ mainPc' = "exited"
    /\ UNCHANGED <<cliIn, registry, renderFails, cliPc, ctxDone, sigChan, bundleGen,
                   generated, pendingTemplate, outDir, calls, cliErr>>
    /\ UNCHANGED <<fbcIn, fbcOut>>
    /\ UNCHANGED manifestVars
    /\ UNCHANGED analysisVars
    /\ UNCHANGED catalogVars
    /\ UNCHANGED renderVars

NextCLI ==
    \/ RunStart
    \/ ExtractDone
    \/ RenderDone
    \/ SendErr
    \/ Signal
    \/ MainReceivesSignal
    \/ MainReceivesErr

SpecCLI == InitCLI /\ [][NextCLI]_vars

(***************************************************************************)
(* pkg/catalog, pkg/bundle: taking an image reference apart               *)
(***************************************************************************)

Sha256Hex == "0123456789abcdef0123456789abcdef0123456789abcdef0123456789abcdef"

MetadataRefs ==
    CatalogRefs \cup
    {"localhost:5000/ns/repo:tag",
     "localhost:5000/ns/repo",
     "localhost/ns/repo",
     "quay.io/repo",
     "quay.io/catalog@sha256:" \o Sha256Hex,
     "repo:tag",
     "ns/repo",
     "quay.io/a/b/catalog-x:1.2",
     "quay.io/ns/bundle@sha256:abc1234",
     "quay.io/ns/bundle@sha256:NOTAHEX!",
     "quay.io/ns/bundle@sha512:" \o Sha256Hex \o Sha256Hex,
     "quay.io/ns/bundle:v1@sha256:" \o Sha256Hex}

NoMetaResult == [op |-> "", err |-> "", meta |-> <<>>, suffix |-> ""]

InitCatalog ==
    /\ metaIn \in MetadataRefs
    /\ metaOut = <<>>
    /\ FbcIdle
    /\ ManifestsIdle
    /\ AnalysisIdle
    /\ CliIdle
    /\ RenderIdle

\* A caller parses the reference into a fresh ImageMetadata.
CallParseImageReference ==
    /\ Len(metaOut) < MaxRuns
    /\ \E parsed \in {parseImageReference(metaIn,
                           [NoImageMetadata EXCEPT !.OriginalRef = metaIn])} :
           metaOut' = Append(metaOut, [NoMetaResult EXCEPT !.op = "parse",
                                                          !.err = parsed.err,
                                                          !.meta = <<parsed.meta>>])
    /\ UNCHANGED metaIn
    /\ UNCHANGED <<fbcVars, manifestVars, analysisVars, cliVars>>
    /\ UNCHANGED renderVars

\* A caller extracts the metadata of the reference.
CallExtractMetadata ==
    /\ Len(metaOut) < MaxRuns
    /\ \E extracted \in {ExtractMetadata(metaIn, catalogChannel)} :
           metaOut' = Append(metaOut, [NoMetaResult EXCEPT !.op = "extract",
                                                          !.err = extracted.err,
                                                          !.meta = extracted.meta])
    /\ UNCHANGED metaIn
    /\ UNCHANGED <<fbcVars, manifestVars, analysisVars, cliVars>>
    /\ UNCHANGED renderVars

\* GenerateMakefile takes the digest suffix of the reference.
CallExtractDigestSuffix ==
    /\ Len(metaOut) < MaxRuns
    /\ metaOut' = Append(metaOut, [NoMetaResult EXCEPT
                                      !.op = "suffix",
                                      !.suffix = extractDigestSuffix(metaIn)])
    /\ UNCHANGED metaIn
    /\ UNCHANGED <<fbcVars, manifestVars, analysisVars, cliVars>>
    /\ UNCHANGED renderVars

NextCatalog == CallParseImageReference \/ CallExtractMetadata \/ CallExtractDigestSuffix

SpecCatalog == InitCatalog /\ [][NextCatalog]_vars

(***************************************************************************)
(* pkg/bundle: RenderCatalogWithBinary step by step                        *)
(***************************************************************************)

\* How the opm process can end: its exit status, what it wrote to stdout
\* before it ended and what it wrote to stderr.
OpmOutcomes ==
    {[exit |-> 0, stdout |-> "schema: olm.package\nschema: olm.bundle\n", stderr |-> ""],
     [exit |-> 1, stdout |-> "", stderr |-> "render failed: image not found"],
     [exit |-> 1, stdout |-> "schema: olm.package\n", stderr |-> "render failed: image not found"],
     [exit |-> 2, stdout |-> "schema: olm.package\n", stderr |-> ""]}
\* The process as the cancelled context kills it.
OpmKilled == [exit |-> -1, stdout |-> "schema: olm.package\n", stderr |-> ""]
NoOutcome == [exit |-> 0, stdout |-> "", stderr |-> ""]

\* What cmd.Output() returned becomes the result: stdout on a zero exit, else
\* the exit code and stderr in the error and no text.
OmpResultKeepingStdout(outcome) ==
    IF outcome.exit # 0
    THEN [err |-> "omp command failed with exit code " \o ToString(outcome.exit)
                  \o ": " \o outcome.stderr,
          yaml |-> outcome.stdout]
    ELSE [err |-> "", yaml |-> outcome.stdout]

OmpResult(outcome) ==
    IF outcome.exit # 0
    THEN [err |-> "omp command failed with exit code " \o ToString(outcome.exit)
                  \o ": " \o outcome.stderr,
          yaml |-> ""]
    ELSE [err |-> "", yaml |-> outcome.stdout]

\* defer os.RemoveAll(tempDir), on success only.
RemoveTempDirOnSuccess(dirs, dir, result) == IF result.err = "" THEN dirs \ {dir} ELSE dirs

\* defer os.RemoveAll(tempDir)
RemoveTempDir(dirs, dir, result) == dirs \ {dir}

InitRender ==
    /\ renderPc = "idle"
    /\ renderCtxDone \in BOOLEAN
    /\ tempDirs = {}
    /\ tempDir = 0
    /\ mkdirCount = 0
    /\ renderOut = <<>>
    /\ FbcIdle
    /\ ManifestsIdle
    /\ AnalysisIdle
    /\ CliIdle
    /\ CatalogIdle

\* The call returns result: the deferred RemoveAll runs when the call has a
\* tempDir.
ReturnFromRender(result, outcome) ==
    /\ renderOut' = Append(renderOut, [err |-> result.err, yaml |-> result.yaml,
                                       dir |-> tempDir, outcome |-> outcome])
    /\ tempDirs' = IF tempDir # 0 THEN RemoveTempDir(tempDirs, tempDir, result) ELSE tempDirs
    /\ tempDir' = 0
    /\ renderPc' = "idle"

\* A caller calls RenderCatalogWithBinary; the template is marshalled.
RenderCall ==
    /\ renderPc = "idle"
    /\ Len(renderOut) < MaxRuns
    /\ renderPc' = "mkdir"
    /\ UNCHANGED <<renderCtxDone, tempDirs, tempDir, mkdirCount, renderOut>>
    /\ UNCHANGED <<fbcVars, manifestVars, analysisVars, cliVars, catalogVars>>

\* os.MkdirTemp makes a directory that did not exist, or fails.
MkdirTemp ==
    /\ renderPc = "mkdir"
    /\ \/ /\ mkdirCount' = mkdirCount + 1
          /\ tempDir' = mkdirCount + 1
          /\ tempDirs' = tempDirs \cup {mkdirCount + 1}
          /\ renderPc' = "write"
          /\ UNCHANGED renderOut
       \/ /\ ReturnFromRender([err |-> "creating temp directory: no space left on device",
                                yaml |-> ""], NoOutcome)
          /\ UNCHANGED mkdirCount
    /\ UNCHANGED renderCtxDone
    /\ UNCHANGED <<fbcVars, manifestVars, analysisVars, cliVars, catalogVars>>

\* os.WriteFile of template.yaml into tempDir.
WriteTemplateFile ==
    /\ renderPc = "write"
    /\ \/ /\ renderPc' = "exec"
          /\ UNCHANGED <<tempDirs, tempDir, renderOut>>
       \/ ReturnFromRender([err |-> "writing template file: no space left on device",
                            yaml |-> ""], NoOutcome)
    /\ UNCHANGED <<renderCtxDone, mkdirCount>>
    /\ UNCHANGED <<fbcVars, manifestVars, analysisVars, cliVars, catalogVars>>

\* cmd.Output starts opm: a cancelled context or a missing binary fails the
\* start.
StartOpm ==
    /\ renderPc = "exec"
    /\ IF renderCtxDone
       THEN ReturnFromRender([err |-> "running omp command: context canceled",
                              yaml |-> ""], NoOutcome)
       ELSE \/ /\ renderPc' = "running"
               /\ UNCHANGED <<tempDirs, tempDir, renderOut>>
            \/ ReturnFromRender(
                   [err |-> "running omp command: exec: no such file or directory",
                    yaml |-> ""], NoOutcome)
    /\ UNCHANGED <<renderCtxDone, mkdirCount>>
    /\ UNCHANGED <<fbcVars, manifestVars, analysisVars, cliVars, catalogVars>>

\* opm ends, by itself or killed by the cancelled context.
OpmExits ==
    /\ renderPc = "running"
    /\ \E outcome \in (IF renderCtxDone THEN {OpmKilled} ELSE OpmOutcomes) :
           ReturnFromRender(OmpResult(outcome), outcome)
    /\ UNCHANGED <<renderCtxDone, mkdirCount>>
    /\ UNCHANGED <<fbcVars, manifestVars, analysisVars, cliVars, catalogVars>>

\* The caller's context is cancelled.
CancelRender ==
    /\ ~renderCtxDone
    /\ renderPc # "idle"
    /\ renderCtxDone' = TRUE
    /\ UNCHANGED <<renderPc, tempDirs, tempDir, mkdirCount, renderOut>>
    /\ UNCHANGED <<fbcVars, manifestVars, analysisVars, cliVars, catalogVars>>

NextRender ==
    RenderCall \/ MkdirTemp \/ WriteTemplateFile \/ StartOpm \/ OpmExits \/ CancelRender

SpecRender == InitRender /\ [][NextRender]_vars

(***************************************************************************)
(* pkg/bundle: properties of the upgrade chain                             *)
(***************************************************************************)

\* The runs of GenerateMultiBundleFBCTemplate that returned a template.
ChainRuns == {k \in DOMAIN fbcOut : fbcIn.op = "multi" /\ fbcOut[k].err = ""}
ChainEntries(k) == fbcOut[k].template.Entries[2].Entries

\* Byte order of the characters of a build date.
DateChars == "-0123456789:TZ"
CharRank(c) == CHOOSE i \in 1..Len(DateChars) : SubSeq(DateChars, i, i) = c

\* a < b as Go compares strings.
RECURSIVE StrLess(_, _)
StrLess(a, b) ==
    IF Len(b) = 0 THEN FALSE
    ELSE IF Len(a) = 0 THEN TRUE
    ELSE LET x == CharRank(SubSeq(a, 1, 1))
             y == CharRank(SubSeq(b, 1, 1))
         IN  x < y \/ (x = y /\ StrLess(SubSeq(a, 2, Len(a)), SubSeq(b, 2, Len(b))))

\* b placed behind every bundle of the sorted list s that is not newer than it.
RECURSIVE InsertByBuildDate(_, _)
InsertByBuildDate(b, s) ==
    IF s = <<>> THEN <<b>>
    ELSE IF StrLess(b.BuildDate, Head(s).BuildDate) THEN <<b>> \o s
    ELSE <<Head(s)>> \o InsertByBuildDate(b, Tail(s))

\* The bundles by buildDate ascending, equal dates in input order.
RECURSIVE OldestFirst(_)
OldestFirst(bundles) ==
    IF bundles = <<>> THEN <<>>
    ELSE InsertByBuildDate(bundles[Len(bundles)],
                           OldestFirst(SubSeq(bundles, 1, Len(bundles) - 1)))

\* C1: the channel entries of every chain built from a non-empty bundle list
\* form one linear chain: entry 1 replaces nothing, every later entry replaces
\* the entry before it, and no entry name is replaced by more than one entry,
\* also when two bundles yield the same generated name.
C1_LinearChain ==
    \A k \in ChainRuns :
        LET e == ChainEntries(k)
        IN  /\ e[1].Replaces = ""
            /\ \A i \in 2..Len(e) : e[i].Replaces = e[i - 1].Name
            /\ \A i \in 1..Len(e) :
                   Cardinality({j \in 1..Len(e) : e[j].Replaces = e[i].Name}) <= 1

\* C2: whatever the order of the input list, the channel entries are those of
\* the bundles by buildDate ascending, equal dates kept in input order.
C2_SortedByBuildDate ==
    \A k \in ChainRuns :
        LET e == ChainEntries(k)
            sorted == OldestFirst(fbcIn.bundles)
        IN  \A i \in 1..Len(e) : e[i].Name = generateCatalogEntryName(sorted[i])

\* The first n characters of s, all of s when it is shorter.
Take(s, n) == SubSeq(s, 1, IF Len(s) < n THEN Len(s) ELSE n)

\* <date>T<time>: the date, a T and the hour and minute digits of a build date.
DateTHourMinute(d) ==
    SubSeq(d, 1, 10) \o "T" \o SubSeq(d, 12, 13) \o SubSeq(d, 15, 16)

\* C6 as claimed: every entry is named <package>.v<version>-g<shortSHA>-<date>T<time>
\* with the package of its own bundle and the first 8 characters of its tag;
\* bundles A and B of demo-operator give the two names of the example.
C6_NameHasBundlePackage ==
    \A k \in ChainRuns :
        /\ \A i \in 1..Len(fbcIn.bundles) :
               LET b == fbcIn.bundles[i]
               IN  Len(b.BuildDate) >= 16 =>
                       ChainEntries(k)[i].Name =
                           PackageOf(b.Image) \o ".v" \o b.Version \o "-g"
                           \o Take(b.Tag, 8) \o "-" \o DateTHourMinute(b.BuildDate)
        /\ fbcIn.bundles = <<BundleA, BundleB>> =>
               /\ ChainEntries(k)[1].Name = "demo-operator.v1.0-gaaaaaaa-2025-01-01T0000"
               /\ ChainEntries(k)[2].Name = "demo-operator.v1.1-gbbbbbbb-2025-02-01T0000"

\* C6 amended: every entry is named bpfman-operator.v<version>-g<shortSHA>-<timestamp>
\* whatever the package of its bundle: shortSHA is the first 8 characters of
\* the tag (the whole tag when shorter), the timestamp is <date>T<HHMM> for a
\* build date of 16 characters or more and empty otherwise.
C6_NameHasFixedPackage ==
    \A k \in ChainRuns :
        /\ \A i \in 1..Len(fbcIn.bundles) :
               LET b == fbcIn.bundles[i]
               IN  ChainEntries(k)[i].Name =
                       "bpfman-operator.v" \o b.Version \o "-g" \o Take(b.Tag, 8) \o "-"
                       \o (IF Len(b.BuildDate) >= 16 THEN DateTHourMinute(b.BuildDate)
                           ELSE "")
        /\ fbcIn.bundles = <<BundleA, BundleB>> =>
               /\ ChainEntries(k)[1].Name = "bpfman-operator.v1.0-gv1.0-aaa-2025-01-01T0000"
               /\ ChainEntries(k)[2].Name = "bpfman-operator.v1.1-gv1.1-bbb-2025-02-01T0000"

\* The chain of the example has been built: bundles A and B of demo-operator.
C6_ExampleBuilt == ChainRuns # {} /\ fbcIn.bundles = <<BundleA, BundleB>>

C19_ExactImageOrNotFound ==
    \A k \in DOMAIN fbcOut :
        fbcIn.op = "single" /\ fbcIn.image # "" =>
            LET rendered == Render(registry, fbcIn.image)
                matching == {i \in DOMAIN rendered.Bundles :
                                rendered.Bundles[i].Image = fbcIn.image}
            IN  /\ rendered.err # "" =>
                       /\ HasPrefix(fbcOut[k].err, "extracting bundle info: rendering bundle: ")
                       /\ fbcOut[k].template = NoTemplate
                /\ rendered.err = "" /\ matching = {} =>
                       /\ fbcOut[k].err
                              = "extracting bundle info: bundle not found in rendered config"
                       /\ fbcOut[k].template = NoTemplate
                /\ rendered.err = "" /\ matching # {} =>
                       /\ fbcOut[k].err = ""
                       /\ \E i \in matching :
                              /\ fbcOut[k].template.Entries[1].Name
                                     = rendered.Bundles[i].Package
                              /\ fbcOut[k].template.Entries[3].Name
                                     = rendered.Bundles[i].Name
                              /\ fbcOut[k].template.Entries[3].Image = fbcIn.image

\* A template was asked for a bundle image that the registry renders under
\* the image of a mirror.
C19_MirroredBundleAsked ==
    /\ fbcIn.op = "single"
    /\ fbcIn.image # ""
    /\ fbcOut # <<>>
    /\ registry[fbcIn.image] = "mirror"

\* The templates handed back and the bundle images they were asked for.
TemplateRuns == {k \in DOMAIN fbcOut : fbcOut[k].err = ""}
InputImages ==
    IF fbcIn.op = "single" THEN {fbcIn.image}
    ELSE {fbcIn.bundles[i].Image : i \in DOMAIN fbcIn.bundles}
EntriesOf(k, schema) ==
    SelectSeq(fbcOut[k].template.Entries, LAMBDA e : e.Schema = schema)

C27_NoFabricatedTimestamp ==
    \A k \in ChainRuns :
        \A i \in DOMAIN fbcIn.bundles :
            LET b == fbcIn.bundles[i]
                bare == "bpfman-operator.v" \o b.Version \o "-g" \o Take(b.Tag, 8) \o "-"
            IN  Len(b.BuildDate) < 16 =>
                    /\ ChainEntries(k)[i].Name = bare
                    /\ fbcOut[k].template.Entries[2 + i].Name = bare
                    /\ i < Len(fbcIn.bundles) => ChainEntries(k)[i + 1].Replaces = bare

\* A chain was built with a bundle that has no build date and one that has
\* the date without the time.
C27_UndatedBundlesChained ==
    /\ ChainRuns # {}
    /\ \E i \in DOMAIN fbcIn.bundles : fbcIn.bundles[i].BuildDate = ""
    /\ \E i \in DOMAIN fbcIn.bundles :
           Len(fbcIn.bundles[i].BuildDate) \in 1..15

(***************************************************************************)
(* pkg/manifests: properties of the generated manifest set                 *)
(***************************************************************************)

\* The runs of GenerateFromCatalog that handed back a ManifestSet.
SetRuns == {k \in DOMAIN manifestOut : manifestOut[k].set # <<>>}
SetOf(k) == manifestOut[k].set[1]
FiveObjects(set) ==
    <<set.Namespace, set.IDMS, set.CatalogSource, set.OperatorGroup, set.Subscription>>
\* The metadata of the generator's image reference, when it has any.
MetaKnown == gen.made /\ ExtractMetadata(gen.config.ImageRef, catalogChannel).err = ""
MetaOfGen == ExtractMetadata(gen.config.ImageRef, catalogChannel).meta[1]

\* C3: GenerateFromCatalog fails whenever the catalog's default channel is
\* empty and then hands back no ManifestSet at all (with readable metadata
\* the failure is the missing-channel error); no error comes with a
\* ManifestSet, and a ManifestSet handed back has all five objects, its
\* Subscription never on a channel the catalog did not declare.
C3_AllOrNothing ==
    \A k \in DOMAIN manifestOut :
        /\ catalogChannel = "" =>
               /\ manifestOut[k].err # ""
               /\ manifestOut[k].set = <<>>
               /\ MetaKnown =>
                      manifestOut[k].err = "no default channel found in catalog metadata"
        /\ manifestOut[k].err # "" <=> manifestOut[k].set = <<>>
        /\ manifestOut[k].set # <<>> =>
               /\ SetOf(k).Namespace.Kind = "Namespace"
               /\ SetOf(k).IDMS.Kind = "ImageDigestMirrorSet"
               /\ SetOf(k).CatalogSource.Kind = "CatalogSource"
               /\ SetOf(k).OperatorGroup.Kind = "OperatorGroup"
               /\ SetOf(k).Subscription.Kind = "Subscription"
               /\ SetOf(k).Subscription.Spec.Channel # ""

\* A run on a readable catalog reference whose catalog declares no default channel.
C3_EmptyChannelRun ==
    /\ catalogChannel = ""
    /\ MetaKnown
    /\ Len(manifestOut) > 0

\* C4: in every ManifestSet handed back, the OperatorGroup and the
\* Subscription are in the namespace the Namespace object names, the
\* Subscription's source is the CatalogSource's name, and its channel is the
\* catalog's default channel.
C4_CrossReferencesAgree ==
    \A k \in SetRuns :
        /\ SetOf(k).OperatorGroup.Namespace = SetOf(k).Namespace.Name
        /\ SetOf(k).Subscription.Namespace = SetOf(k).Namespace.Name
        /\ SetOf(k).Subscription.Spec.Source = SetOf(k).CatalogSource.Name
        /\ SetOf(k).Subscription.Spec.Channel = catalogChannel

\* A ManifestSet with a digest-suffixed CatalogSource in a namespace of the caller's choosing.
C4_SetInChosenNamespace ==
    /\ SetRuns # {}
    /\ gen.config.Namespace = "test-ns"
    /\ MetaOfGen.ShortDigest # ""

\* C5: in every ManifestSet handed back, the CatalogSource, OperatorGroup,
\* Subscription and ImageDigestMirrorSet are named <base>-sha-<shortDigest>
\* when the metadata's short digest is non-empty and exactly <base> when it
\* is empty; the Subscription's source is the CatalogSource's name.
C5_DigestSuffixedNames ==
    \A k \in SetRuns :
        LET sd == MetaOfGen.ShortDigest
            Named(base) == IF sd # "" THEN base \o "-sha-" \o sd ELSE base
        IN  /\ SetOf(k).CatalogSource.Name = Named("bpfman-catalogsource")
            /\ SetOf(k).OperatorGroup.Name = Named("bpfman-operatorgroup")
            /\ SetOf(k).Subscription.Name = Named("bpfman-subscription")
            /\ SetOf(k).IDMS.Name = Named("bpfman-idms")
            /\ SetOf(k).Subscription.Spec.Source = Named("bpfman-catalogsource")
            /\ sd = "abc12345" =>
                   SetOf(k).CatalogSource.Name = "bpfman-catalogsource-sha-abc12345"

\* A ManifestSet generated for a reference whose digest has no short form.
C5_SetWithoutShortDigest ==
    /\ SetRuns # {}
    /\ MetaOfGen.Digest # ""
    /\ MetaOfGen.ShortDigest = ""

\* C10: all five objects of a ManifestSet handed back carry the standard
\* labels with the standard values (name, created-by, and the short digest
\* under bpfman-catalog-cli when there is one), the same on every object;
\* what an object adds on top leaves them as they are.
C10_StandardLabelsOnAll ==
    \A k \in SetRuns :
        LET sd == MetaOfGen.ShortDigest
            objs == FiveObjects(SetOf(k))
            StandardKeys == {"app.kubernetes.io/name", "app.kubernetes.io/created-by"}
                            \cup (IF sd # "" THEN {"bpfman-catalog-cli"} ELSE {})
        IN  \A i \in 1..5 :
                /\ StandardKeys \subseteq DOMAIN objs[i].Labels
                /\ objs[i].Labels["app.kubernetes.io/name"] = "bpfman-operator"
                /\ objs[i].Labels["app.kubernetes.io/created-by"] = "bpfman-catalog-cli"
                /\ sd # "" => objs[i].Labels["bpfman-catalog-cli"] = sd
                /\ sd = "" => "bpfman-catalog-cli" \notin DOMAIN objs[i].Labels
                /\ \A key \in DOMAIN gen.labelContext[1].StandardLabels :
                       /\ key \in DOMAIN objs[i].Labels
                       /\ objs[i].Labels[key] = gen.labelContext[1].StandardLabels[key]

\* A ManifestSet whose Namespace carries its monitoring label on top of the digest labels.
C10_NamespaceAddsMonitoring ==
    /\ SetRuns # {}
    /\ MetaOfGen.ShortDigest # ""
    /\ "openshift.io/cluster-monitoring" \in DOMAIN SetOf(1).Namespace.Labels

\* C11: two GenerateFromCatalog calls on the same catalog image reference,
\* digest and default channel hand back ManifestSets that are equal in every
\* field of every object, the CatalogSource's display name and publisher
\* included.
C11_Deterministic ==
    \A j \in SetRuns : \A k \in SetRuns : SetOf(j) = SetOf(k)

\* C22: in every ManifestSet handed back for a catalog with a short digest,
\* the Namespace is named <namespace>-sha-<shortDigest> as the other
\* resources are (bpfman and 12345678 give bpfman-sha-12345678), and the
\* OperatorGroup and the Subscription are in the namespace of that name.
C22_NamespaceSuffixed ==
    \A k \in SetRuns :
        SetOf(k).CatalogSource.Name = "bpfman-catalogsource-sha-" \o MetaOfGen.ShortDigest =>
            LET suffixed == gen.config.Namespace \o "-sha-" \o MetaOfGen.ShortDigest
            IN  /\ SetOf(k).Namespace.Name = suffixed
                /\ SetOf(k).OperatorGroup.Namespace = suffixed
                /\ SetOf(k).Subscription.Namespace = suffixed
                /\ gen.config.Namespace = "bpfman" /\ MetaOfGen.ShortDigest = "12345678" =>
                       SetOf(k).Namespace.Name = "bpfman-sha-12345678"

(***************************************************************************)
(* pkg/catalog, pkg/bundle: properties of the parsed reference             *)
(***************************************************************************)

\* The position of the last sep in s, counted from 1; 0 when absent.
LastIndex(s, sep) ==
    LET at == {i \in 1..Len(s) : SubSeq(s, i, i) = sep}
    IN  IF at = {} THEN 0 ELSE CHOOSE i \in at : \A j \in at : i >= j

\* The decomposition the reference algorithm prescribes: the digest after
\* the first '@', the tag after the last ':' of the remainder, the first
\* path segment the registry when it has a dot or a colon or is localhost.
Decomposed(imageRef0) ==
    LET imageRef == TrimPrefix(imageRef0, "docker://")
        idx == Index(imageRef, "@")
        rest == IF idx # 0 THEN SubSeq(imageRef, 1, idx - 1) ELSE imageRef
        colon == LastIndex(rest, ":")
        base == IF colon # 0 THEN SubSeq(rest, 1, colon - 1) ELSE rest
        segments == Split(base, "/")
        hasHost == \/ Contains(segments[1], ".")
                   \/ Contains(segments[1], ":")
                   \/ segments[1] = "localhost"
        remaining == IF hasHost THEN Tail(segments) ELSE segments
    IN  [Digest |-> IF idx # 0 THEN SubSeq(imageRef, idx + 1, Len(imageRef)) ELSE "",
         Tag |-> IF colon # 0 THEN SubSeq(rest, colon + 1, Len(rest)) ELSE "",
         Registry |-> IF hasHost THEN segments[1] ELSE "docker.io",
         Namespace |-> IF Len(remaining) > 1
                       THEN Join(SubSeq(remaining, 1, Len(remaining) - 1), "/") ELSE "",
         Repository |-> IF Len(remaining) > 0 THEN remaining[Len(remaining)] ELSE "",
         Remaining |-> Len(remaining)]

ParseRuns == {k \in DOMAIN metaOut : metaOut[k].op = "parse"}
ExtractRuns == {k \in DOMAIN metaOut : metaOut[k].op = "extract"}
SuffixRuns == {k \in DOMAIN metaOut : metaOut[k].op = "suffix"}

\* C12: whenever parseImageReference accepts a reference, the tag is the
\* part after the last ':' of what precedes the first '@', the registry is
\* the first path segment when that has a dot or a colon or is localhost and
\* docker.io otherwise, the repository is the last segment, the namespace
\* what lies between, and a well-formed digest after the '@' is the digest;
\* localhost:5000/ns/repo:tag has tag "tag" and repository "repo".
C12_DecomposedAsPrescribed ==
    \A k \in ParseRuns :
        metaOut[k].err = "" =>
            LET m == metaOut[k].meta[1]
                d == Decomposed(metaIn)
            IN  /\ m.Tag = d.Tag
                /\ m.Registry = d.Registry
                /\ m.Namespace = d.Namespace
                /\ m.Repository = d.Repository
                /\ DigestParseOk(d.Digest) => m.Digest = d.Digest
                /\ metaIn = "localhost:5000/ns/repo:tag" =>
                       m.Tag = "tag" /\ m.Repository = "repo"

\* C13: a reference that leaves fewer than two path segments for namespace
\* and repository, once tag, digest and registry host are taken off, is
\* refused with the parse error, and ExtractMetadata then hands back no
\* metadata.
C13_FewSegmentsRefused ==
    \A k \in DOMAIN metaOut :
        Decomposed(metaIn).Remaining < 2 =>
            /\ k \in ParseRuns =>
                   HasPrefix(metaOut[k].err, "invalid image reference format: ")
            /\ k \in ExtractRuns =>
                   /\ HasPrefix(metaOut[k].err,
                                "parsing image reference: invalid image reference format: ")
                   /\ metaOut[k].meta = <<>>

\* The short digest a reference should have: the first 8 characters of a
\* sha256 digest of 64 lowercase hex characters, "" for anything else.
ExpectedShortDigest(imageRef) ==
    LET d == Decomposed(imageRef).Digest
    IN  IF HasPrefix(d, "sha256:") /\ DigestParseOk(d) THEN SubSeq(d, 8, 15) ELSE ""

\* C14: the short digest taken from a reference, by ExtractMetadata or by
\* extractDigestSuffix, is the first 8 lowercase hex characters of its
\* digest when that is a sha256 digest of the right length, and "" in every
\* other case.
C14_ShortDigestExact ==
    /\ \A k \in ExtractRuns :
           metaOut[k].meta # <<>> =>
               metaOut[k].meta[1].ShortDigest = ExpectedShortDigest(metaIn)
    /\ \A k \in SuffixRuns :
           metaOut[k].suffix = ExpectedShortDigest(metaIn)

\* C24: ExtractMetadata resolves the digest (and fails, digest fetching
\* being disabled) only for a reference from which no digest was parsed; for
\* a reference with a well-formed digest it succeeds without the registry
\* and hands back that digest, the short digest being its first 8 hex
\* characters when it is a sha256 digest.
C24_DigestFetchedOnlyWhenAbsent ==
    \A k \in ExtractRuns :
        LET supplied == Decomposed(metaIn).Digest
            parsed == parseImageReference(metaIn, NoImageMetadata)
        IN  /\ HasPrefix(metaOut[k].err, "fetching digest: ") =>
                   parsed.err = "" /\ parsed.meta.Digest = ""
            /\ DigestParseOk(supplied) /\ parsed.err = "" =>
                   /\ metaOut[k].err = ""
                   /\ metaOut[k].meta # <<>>
                   /\ metaOut[k].meta[1].Digest = supplied
                   /\ metaOut[k].meta[1].ShortDigest =
                          (IF HasPrefix(supplied, "sha256:") THEN SubSeq(supplied, 8, 15)
                           ELSE "")

\* The metadata of a reference with a sha256 digest was extracted.
C24_DigestSupplied ==
    \E k \in ExtractRuns :
        /\ metaOut[k].meta # <<>>
        /\ HasPrefix(Decomposed(metaIn).Digest, "sha256:")
        /\ metaOut[k].meta[1].ShortDigest # ""

(***************************************************************************)
(* pkg/analysis: properties of the bundle analysis                         *)
(***************************************************************************)

\* The bundle reference of the call and its tenant-workspace reference.
PrimaryRef == ImageRefString(ParseImageRef(analysisIn).ref)
TenantRef == ImageRefString(ConvertToTenantWorkspace(ParseImageRef(analysisIn).ref).ref)
BothUnreachable ==
    /\ ParseImageRef(analysisIn).err = ""
    /\ ConvertToTenantWorkspace(ParseImageRef(analysisIn).ref).err = ""
    /\ ~reachable[PrimaryRef]
    /\ ~reachable[TenantRef]

\* The analyses that were handed back, and the image results of one.
AnalysisRuns == {k \in DOMAIN analysisOut : analysisOut[k].analysis # <<>>}
ImagesOf(k) == analysisOut[k].analysis[1].Images
SummaryOf(k) == analysisOut[k].analysis[1].Summary

\* The image is not served at its own reference but is served at its
\* tenant-workspace reference.
OnlyInTenantWorkspace(image) ==
    LET parsed == ParseImageRef(image)
        tenant == ConvertToTenantWorkspace(parsed.ref)
    IN  /\ parsed.err = ""
        /\ ~(image \in DOMAIN reachable /\ reachable[image])
        /\ tenant.err = ""
        /\ ImageRefString(tenant.ref) \in DOMAIN reachable
        /\ reachable[ImageRefString(tenant.ref)]

TenantClassified(k) ==
    \A i \in DOMAIN ImagesOf(k) :
        OnlyInTenantWorkspace(ImagesOf(k)[i].Reference) =>
            /\ ImagesOf(k)[i].Accessible
            /\ ImagesOf(k)[i].Registry = "TenantWorkspace"

\* C16 as stated: an image served only at its tenant-workspace reference is
\* reported accessible in the TenantWorkspace, and the analysis of a bundle
\* whose only related image is such an image has one image result and a
\* summary of 1 image, 1 accessible, 1 tenant.
C16_OneTenantResult ==
    \A k \in AnalysisRuns :
        /\ TenantClassified(k)
        /\ analysisIn = AgentOnlyBundle /\ OnlyInTenantWorkspace(DownstreamAgent) =>
               /\ Len(ImagesOf(k)) = 1
               /\ SummaryOf(k).TotalImages = 1
               /\ SummaryOf(k).AccessibleImages = 1
               /\ SummaryOf(k).TenantImages = 1

\* C16: an image served only at its tenant-workspace reference is reported
\* accessible in the TenantWorkspace, and the analysis of a bundle whose only
\* related image is such an image has two image results, the bundle's own
\* image and then the related image, and a summary of 2 images, 2 accessible,
\* 1 tenant.
C16_BundleAndTenantResult ==
    \A k \in AnalysisRuns :
        /\ TenantClassified(k)
        /\ analysisIn = AgentOnlyBundle /\ OnlyInTenantWorkspace(DownstreamAgent) =>
               /\ Len(ImagesOf(k)) = 2
               /\ ImagesOf(k)[1].Reference = AgentOnlyBundle
               /\ ImagesOf(k)[1].Accessible
               /\ ImagesOf(k)[2].Reference = DownstreamAgent
               /\ ImagesOf(k)[2].Accessible
               /\ ImagesOf(k)[2].Registry = "TenantWorkspace"
               /\ SummaryOf(k).TotalImages = 2
               /\ SummaryOf(k).AccessibleImages = 2
               /\ SummaryOf(k).TenantImages = 1

\* The bundle with the agent as its only related image was analysed while
\* the agent was served in the tenant workspace only.
C16_AgentOnlyBundleAnalysed ==
    /\ AnalysisRuns # {}
    /\ analysisIn = AgentOnlyBundle
    /\ OnlyInTenantWorkspace(DownstreamAgent)

\* The runs that hand back every image result, none filtered away.
UnfilteredRuns ==
    {k \in AnalysisRuns : analysisOut[k].config = <<>> \/ analysisOut[k].config[1].ShowAll}

\* The references of the bundle as it declares them: its own image, then its
\* related images.
DeclaredImages == <<analysisIn>> \o RelatedImagesOf(analysisIn)

FirstAt(seq, x) == CHOOSE i \in DOMAIN seq : seq[i] = x /\ \A j \in 1..(i - 1) : seq[j] # x

\* C28: the images of an analysis are the non-empty references the bundle
\* declares as its own image or as a related image, each exactly once and in
\* the order of first appearance, and deduplicating that list or a
\* deduplicated list of references again changes nothing.
C28_EachImageOnceInOrder ==
    /\ \A k \in UnfilteredRuns :
           LET refs == [i \in DOMAIN ImagesOf(k) |-> ImagesOf(k)[i].Reference]
           IN  /\ {refs[i] : i \in DOMAIN refs}
                      = {DeclaredImages[i] : i \in DOMAIN DeclaredImages} \ {""}
               /\ \A i, j \in DOMAIN refs : i # j => refs[i] # refs[j]
               /\ \A i, j \in DOMAIN refs :
                      i < j => FirstAt(DeclaredImages, refs[i]) < FirstAt(DeclaredImages, refs[j])
               /\ deduplicateStrings(refs) = refs
    /\ deduplicateStrings(deduplicateStrings(inspectIn)) = deduplicateStrings(inspectIn)

\* A bundle declaring an empty reference and the same image twice was
\* analysed and all its image results handed back.
C28_RepeatedAndEmptyDeclared ==
    /\ UnfilteredRuns # {}
    /\ \E i \in DOMAIN DeclaredImages : DeclaredImages[i] = ""
    /\ \E i, j \in DOMAIN DeclaredImages :
           i < j /\ DeclaredImages[i] = DeclaredImages[j] /\ DeclaredImages[i] # ""

\* Every image result handed back so far, by InspectImage, by InspectImages
\* and within an analysis.
AllImageResults ==
    {imageOut[k].result : k \in DOMAIN imageOut}
    \cup UNION {{inspectOut[k].results[i] : i \in DOMAIN inspectOut[k].results} :
                   k \in DOMAIN inspectOut}
    \cup UNION {{ImagesOf(k)[i] : i \in DOMAIN ImagesOf(k)} : k \in AnalysisRuns}

\* C29: in every image result Accessible is true exactly when Registry is
\* not NotAccessible, Error is non-empty exactly when Accessible is false,
\* Info is set only when Accessible is true, and InspectImage never hands
\* back an error.
C29_ResultFieldsConsistent ==
    /\ \A r \in AllImageResults :
           /\ r.Accessible <=> r.Registry # "NotAccessible"
           /\ r.Error # "" <=> ~r.Accessible
           /\ r.Info # <<>> => r.Accessible
    /\ \A k \in DOMAIN imageOut : imageOut[k].err = ""

\* InspectImage handed back an accessible result with its Info and a result
\* for a reference that has no tenant-workspace counterpart and is served
\* nowhere.
C29_AccessibleAndInaccessibleSeen ==
    /\ \E k \in DOMAIN imageOut :
           imageOut[k].result.Accessible /\ imageOut[k].result.Info # <<>>
    /\ \E k \in DOMAIN imageOut :
           imageOut[k].result.Error = "not accessible in any registry"

\* The image is served at its own reference or at its tenant-workspace one.
Served(image) ==
    \/ ParseImageRef(image).err = "" /\ image \in DOMAIN reachable /\ reachable[image]
    \/ OnlyInTenantWorkspace(image)

\* C17: InspectImages never fails and hands back one result per reference,
\* in the order of the references; a reference that cannot be parsed and an
\* image that is served nowhere are NotAccessible with an error text, and
\* every image that is served is reported accessible whatever became of the
\* others.
C17_FailuresIsolated ==
    \A k \in DOMAIN inspectOut :
        /\ inspectOut[k].err = ""
        /\ Len(inspectOut[k].results) = Len(inspectIn)
        /\ \A i \in DOMAIN inspectIn :
               LET r == inspectOut[k].results[i]
               IN  /\ i \in DOMAIN inspectOut[k].results
                   /\ r.Reference = inspectIn[i]
                   /\ r.Accessible <=> Served(inspectIn[i])
                   /\ r.Accessible =>
                          r.Registry \in {"DownstreamRegistry", "TenantWorkspace"}
                   /\ ~r.Accessible => r.Registry = "NotAccessible" /\ r.Error # ""
                   /\ ParseImageRef(inspectIn[i]).err # "" =>
                          HasPrefix(r.Error, "invalid image reference: ")

\* A list was inspected whose first reference cannot be parsed and whose
\* second is an image that is served.
C17_BadReferenceBeforeServedImage ==
    /\ inspectOut # <<>>
    /\ Len(inspectIn) >= 2
    /\ ParseImageRef(inspectIn[1]).err # ""
    /\ Served(inspectIn[2])

\* How many of the image results satisfy P.
CountOf(images, P(_)) == Cardinality({i \in DOMAIN images : P(images[i])})

\* C18: the summary handed back with a BundleAnalysis counts the images
\* handed back with it: the total is their number, the accessible and
\* inaccessible counts are exact and add up to the total; an analysis made
\* with ShowAll false holds accessible images only and its summary counts no
\* inaccessible image.
C18_SummaryMatchesImages ==
    \A k \in AnalysisRuns :
        /\ SummaryOf(k).TotalImages = Len(ImagesOf(k))
        /\ SummaryOf(k).AccessibleImages = CountOf(ImagesOf(k), LAMBDA r : r.Accessible)
        /\ SummaryOf(k).InaccessibleImages = CountOf(ImagesOf(k), LAMBDA r : ~r.Accessible)
        /\ SummaryOf(k).AccessibleImages + SummaryOf(k).InaccessibleImages
               = SummaryOf(k).TotalImages
        /\ analysisOut[k].config = <<[ShowAll |-> FALSE]>> =>
               /\ \A i \in DOMAIN ImagesOf(k) : ImagesOf(k)[i].Accessible
               /\ SummaryOf(k).InaccessibleImages = 0

\* A bundle with a related image that is served nowhere was analysed with
\* ShowAll false.
C18_FilteredAnalysis ==
    \E k \in AnalysisRuns :
        /\ analysisOut[k].config = <<[ShowAll |-> FALSE]>>
        /\ analysisIn = AgentOnlyBundle
        /\ ~Served(DownstreamAgent)
        /\ Len(ImagesOf(k)) = 1

\* The inspection attempts the two-attempt policy allows for a reference:
\* none when it cannot be parsed, the reference as given, and after that its
\* tenant-workspace reference when the first attempt failed and the
\* reference has one.
Attempts(image) ==
    LET parsed == ParseImageRef(image)
        tenant == ConvertToTenantWorkspace(parsed.ref)
    IN  IF parsed.err # "" THEN <<>>
        ELSE IF image \in DOMAIN reachable /\ reachable[image] THEN <<Inspect(image)>>
        ELSE IF tenant.err # "" THEN <<Inspect(image)>>
        ELSE <<Inspect(image), Inspect(ImageRefString(tenant.ref))>>

\* The registry calls of an analysis up to its render, or all of them.
RECURSIVE BeforeRender(_)
BeforeRender(io) ==
    IF io = <<>> \/ Head(io).op = "render" THEN <<>>
    ELSE <<Head(io)>> \o BeforeRender(Tail(io))

C7_BothReferencesInError ==
    \A k \in DOMAIN analysisOut :
        BothUnreachable =>
            /\ Contains(analysisOut[k].err, "bundle not accessible in any registry")
            /\ Contains(analysisOut[k].err, PrimaryRef)
            /\ Contains(analysisOut[k].err, TenantRef)
            /\ analysisOut[k].analysis = <<>>
            /\ analysisOut[k].io = <<Inspect(PrimaryRef), Inspect(TenantRef)>>

(***************************************************************************)
(* cmd/bpfman-catalog: properties of prepare-catalog-build-from-bundle     *)
(***************************************************************************)

\* The catalog render was called and failed.
RenderFailed ==
    /\ cliPc \in {"returned", "sent"}
    /\ HasPrefix(generated.err, "rendering catalog: ")

\* C8: when the catalog render fails, the command does not fail: the FBC
\* template, the Dockerfile and the Makefile are written, no catalog.yaml
\* is, and the workflow note says that the catalog was not rendered.
C8_RenderFailureNonFatal ==
    RenderFailed =>
        /\ cliErr = ""
        /\ {"fbc-template.yaml", "Dockerfile", "Makefile"} \subseteq DOMAIN outDir
        /\ "catalog.yaml" \notin DOMAIN outDir
        /\ "WORKFLOW.txt" \in DOMAIN outDir
        /\ Contains(outDir["WORKFLOW.txt"], "catalog rendered: false")

\* C9: every registry or external-process call that returns after the
\* caller's context was cancelled returns a cancellation error, not a
\* result and not a registry, parse or exit-status error.
C9_CancellationHonoured ==
    \A k \in DOMAIN calls :
        calls[k].done => Contains(calls[k].err, "context canceled")

\* C30: main has left only after it took the command's error from errChan,
\* the command goroutine always finds room in errChan for the error Run
\* returned, and the exit status is 1 exactly when Run returned an error,
\* whether or not a signal was taken.
C30_ResultReceivedBeforeExit ==
    /\ mainPc = "exited" => cliPc = "sent" /\ errChan = <<>>
    /\ cliPc = "returned" => Len(errChan) < ErrChanCap
    /\ mainPc = "exited" => (exitCode = 1 <=> cliErr # "")
    /\ exitCode \in {0, 1}
    /\ mainPc # "exited" => exitCode = 0

\* main has left with status 0 after a signal cancelled the context and the
\* command still returned no error.
C30_SignalTakenExitZero ==
    /\ mainPc = "exited"
    /\ ctxDone
    /\ cliErr = ""
    /\ exitCode = 0

(***************************************************************************)
(* pkg/bundle: properties of RenderCatalogWithBinary                       *)
(***************************************************************************)

\* The calls in which opm ran and ended.
OpmRuns == {k \in DOMAIN renderOut : renderOut[k].outcome # NoOutcome}

\* C21: when opm ends with a non-zero exit status the call returns the error
\* "omp command failed with exit code <status>: <stderr>" and the empty
\* string, whatever opm had written to stdout.
C21_StderrNotStdout ==
    \A k \in OpmRuns :
        renderOut[k].outcome.exit # 0 =>
            /\ renderOut[k].err =
                   "omp command failed with exit code "
                   \o ToString(renderOut[k].outcome.exit) \o ": "
                   \o renderOut[k].outcome.stderr
            /\ renderOut[k].yaml = ""

\* opm failed after it had written part of a catalog to stdout and a
\* diagnostic to stderr.
C21_FailedWithPartialStdout ==
    \E k \in OpmRuns :
        /\ renderOut[k].outcome.exit = 1
        /\ renderOut[k].outcome.stdout # ""
        /\ renderOut[k].outcome.stderr # ""

\* C25: the tempDir of a call did not exist before the call made it and is
\* not that of any earlier call, and once a call has returned no temporary
\* directory exists, whichever way the call ended.
C25_TempDirScoped ==
    /\ renderPc \in {"idle", "mkdir"} => tempDirs = {} /\ tempDir = 0
    /\ renderPc \in {"write", "exec", "running"} =>
           /\ tempDirs = {tempDir}
           /\ \A k \in DOMAIN renderOut : renderOut[k].dir # tempDir
    /\ \A j \in DOMAIN renderOut : \A k \in DOMAIN renderOut :
           j # k /\ renderOut[j].dir # 0 => renderOut[j].dir # renderOut[k].dir

\* Two calls that made a tempDir have returned, one of them with an error of
\* opm and the other without an error.
C25_ReturnedBothWays ==
    /\ renderPc = "idle"
    /\ \E k \in DOMAIN renderOut : renderOut[k].dir # 0 /\ renderOut[k].err = ""
    /\ \E k \in DOMAIN renderOut :
           renderOut[k].dir # 0 /\ HasPrefix(renderOut[k].err, "omp command failed")

====
